---- MODULE Spec2Model ----
(***************************************************************************)
(* A model of glyphsLib's typed document model (Lib/glyphsLib/classes.py): *)
(* the collection proxies, the custom parameter store, the master and      *)
(* layer names and the font's minor version.                               *)
(*                                                                         *)
(* Python objects are identified by small integers, their attributes are   *)
(* functions over those identities.  Python's None is the string None; an  *)
(* exception raised to the caller is recorded in the "err" field of the    *)
(* record that describes the last operation of a component.                *)
(***************************************************************************)
EXTENDS Integers, Sequences, FiniteSets, TLC

\* Python's None.
None == "<None>"

\* An object of the pool that has not been constructed yet.
Unalloc == "<unallocated>"

\* Python truthiness of a string-or-None value: None and "" are false.
Truthy(s) == s # None /\ s # ""

\* All sequences over S of length lo..hi.
SeqsOf(S, lo, hi) == UNION {[1..k -> S] : k \in lo..hi}

\* The sequence s without its i-th element (del s[i], 1-based).
RemoveAt(s, i) == SubSeq(s, 1, i - 1) \o SubSeq(s, i + 1, Len(s))

\* The sequence s with x put before its (i+1)-th element (list.insert(i, x)).
InsertAt(s, i, x) == SubSeq(s, 1, i) \o <<x>> \o SubSeq(s, i + 1, Len(s))

\* The elements of a sequence.
Range(s) == {s[i] : i \in DOMAIN s}

(***************************************************************************)
(* Bounds of the model.                                                    *)
(***************************************************************************)
\* Number of GSAnchor objects a run may construct.
NumAnchors == 3
\* Longest anchor list of a layer.
MaxAnchors == 3
\* Longest list handed to extend or to a bulk replace.
MaxArgLen == 2
\* How far beyond each end of the valid range, and how far inside it, the
\* minor versions tried by a run lie.
VersionSlack == 5
\* Longest string handed to a custom parameter as its value.
MaxStrLen == 2
\* Largest magnitude of an integer handed to a custom parameter as its value.
MaxRawInt == 1
\* Longest custom parameter list of an owner.
MaxParams == 2
\* Number of masters of the font.
NumMasters == 3
\* Number of GSLayer objects a run can construct.
NumLayers == 2
\* Most layers handed to the bulk replace, and held by the glyph.
MaxLayersArg == 2
\* Most glyphs of the font.
MaxGlyphs == 2
\* Most files written in a run.
MaxSaves == 2

VARIABLES
    \* ---- one GSLayer and the GSAnchor objects of the run --------------
    anchorName,     \* GSAnchor.name of each anchor object
    anchorParent,   \* GSAnchor._parent of each anchor object
    anchors,        \* GSLayer._anchors: the list of anchor objects
    anchorOp,       \* the last anchor operation and the error it raised
    \* ---- one GSFont ---------------------------------------------------
    versionMinor,   \* GSFont._versionMinor
    fontOp,         \* the last font operation, its argument and its error
    \* ---- one GSCustomParameter object ---------------------------------
    pName,          \* GSCustomParameter.name
    pValue,         \* GSCustomParameter._value
    pOp,            \* the last operation on it, the raw value and the error
    \* ---- the custom parameters of one owner (a GSFont) -----------------
    customParameters,   \* owner._customParameters: a list of parameters
    cpOp,               \* the last proxy operation, its arguments, its error
    \* ---- the GSFontMaster objects of the font --------------------------
    mName,          \* GSFontMaster._name of each master
    mWeight,        \* GSFontMaster._weight
    mWidth,         \* GSFontMaster._width
    mCustom,        \* GSFontMaster._custom, _custom1, _custom2
    mItalic,        \* GSFontMaster.italicAngle, in hundredths of a degree
    mParams,        \* GSFontMaster._customParameters
    mOp,            \* the last master operation and what it returned
    \* ---- one GSGlyph and the GSLayer objects ---------------------------
    layerId,        \* GSLayer.layerId of each layer object
    layerAssoc,     \* GSLayer.associatedMasterId
    layerParent,    \* GSLayer.parent
    layerName,      \* GSLayer._name
    glyphLayers,    \* GSGlyph._layers, an OrderedDict: entries [key, layer]
    glyphParent,    \* GSGlyph.parent
    lOp,            \* the last layer operation and what it returned
    \* ---- the glyphs of the font ---------------------------------------
    fontGlyphs,     \* GSFont._glyphs: [name, unicode] of each glyph
    gOp,            \* the last lookup in font.glyphs and what it returned
    \* ---- the fields the writer always asks about ----------------------
    upm,            \* GSFont.upm, where the units per em are kept
    layerWidth,     \* GSLayer.width of one layer
    pathClosed,     \* GSPath.closed of one path
    weightValue,    \* GSFontMaster.weightValue of the first master
    position,       \* GSAnchor.position of one anchor
    wOp,            \* the last shouldWriteValueForKey call and its answer
    \* ---- the font and the files --------------------------------------
    filepath,       \* GSFont.filepath
    opened,         \* the path the font was constructed with, or None
    written,        \* the paths GlyphsWriter has written the font to
    sOp,            \* the last save, its argument and its error
    \* ---- user data ----------------------------------------------------
    classUserData,  \* the _userData dict of each class
    ownUserData,    \* the _userData attribute of each object that has one
    uOp,            \* the last user data operation, its owner and its error
    \* ---- one GSInstance of the font -----------------------------------
    iName,          \* GSInstance.name
    iParams,        \* GSInstance._customParameters
    iOp             \* the last property assignment, its value and its error

anchorVars == <<anchorName, anchorParent, anchors, anchorOp>>
fontVars == <<versionMinor, fontOp>>
paramVars == <<pName, pValue, pOp>>
storeVars == <<customParameters, cpOp>>
masterVars == <<mName, mWeight, mWidth, mCustom, mItalic, mParams, mOp>>
layerVars == <<layerId, layerAssoc, layerParent, layerName, glyphLayers,
               glyphParent, lOp>>

glyphVars == <<fontGlyphs, gOp>>
writeVars == <<upm, layerWidth, pathClosed, weightValue, position, wOp>>

saveVars == <<filepath, opened, written, sOp>>
userVars == <<classUserData, ownUserData, uOp>>
instanceVars == <<iName, iParams, iOp>>

vars == <<anchorVars, fontVars, paramVars, storeVars, masterVars, layerVars,
          glyphVars, writeVars, saveVars, userVars, instanceVars>>

\* What an operation on one component leaves alone: the other components.
OnlyAnchors ==
    UNCHANGED <<fontVars, paramVars, storeVars, masterVars, layerVars,
                glyphVars, writeVars, saveVars, userVars, instanceVars>>
OnlyFont ==
    UNCHANGED <<anchorVars, paramVars, storeVars, masterVars, layerVars,
                glyphVars, writeVars, saveVars, userVars, instanceVars>>
OnlyParam ==
    UNCHANGED <<anchorVars, fontVars, storeVars, masterVars, layerVars,
                glyphVars, writeVars, saveVars, userVars, instanceVars>>
OnlyStore ==
    UNCHANGED <<anchorVars, fontVars, paramVars, masterVars, layerVars,
                glyphVars, writeVars, saveVars, userVars, instanceVars>>
OnlyMasters ==
    UNCHANGED <<anchorVars, fontVars, paramVars, storeVars, layerVars,
                glyphVars, writeVars, saveVars, userVars, instanceVars>>
\* Reading a master layer's name reads the master's name, which keeps it.
OnlyLayers ==
    UNCHANGED <<anchorVars, fontVars, paramVars, storeVars, glyphVars,
                writeVars, saveVars, userVars, instanceVars>>
OnlyGlyphs ==
    UNCHANGED <<anchorVars, fontVars, paramVars, storeVars, masterVars,
                layerVars, writeVars, saveVars, userVars, instanceVars>>
\* Asking whether a field is written reads the entity and changes nothing.
OnlyWrite ==
    UNCHANGED <<anchorVars, paramVars, storeVars, layerVars, glyphVars,
                saveVars, userVars, instanceVars>>
OnlySave ==
    UNCHANGED <<anchorVars, fontVars, paramVars, storeVars, masterVars,
                layerVars, glyphVars, writeVars, userVars, instanceVars>>
OnlyUser ==
    UNCHANGED <<anchorVars, fontVars, paramVars, storeVars, masterVars,
                layerVars, glyphVars, writeVars, saveVars, instanceVars>>
OnlyInstance ==
    UNCHANGED <<anchorVars, fontVars, paramVars, storeVars, masterVars,
                layerVars, glyphVars, writeVars, saveVars, userVars>>

(***************************************************************************)
(* GSAnchor and LayerAnchorsProxy.                                         *)
(***************************************************************************)
AnchorIds == 1..NumAnchors

\* The names given to anchors: None, the empty default of GSAnchor(), and
\* two real names.
AnchorNames == {None, "", "top", "bottom"}

\* The layer that owns the anchor list.
TheLayer == "layer"

Allocated(a) == anchorName[a] # Unalloc

AnchorIdle ==
    /\ anchorName = [a \in AnchorIds |-> Unalloc]
    /\ anchorParent = [a \in AnchorIds |-> None]
    /\ anchors = <<>>
    /\ anchorOp = [op |-> "init", a |-> 0, err |-> "none"]

AOp(op, a, err) == [op |-> op, a |-> a, err |-> err]

\* for i, a in enumerate(self._owner._anchors): if a.name == key: the first
\* position whose anchor has the name, 0 when there is none.
AnchorIndexOfName(list, names, n) ==
    IF \E i \in DOMAIN list : names[list[i]] = n
    THEN CHOOSE i \in DOMAIN list :
            /\ names[list[i]] = n
            /\ \A j \in 1..(i - 1) : names[list[j]] # n
    ELSE 0

\* list.index(x): the first position of an object, 0 when it is absent.
IndexOf(list, x) ==
    IF \E i \in DOMAIN list : list[i] = x
    THEN CHOOSE i \in DOMAIN list :
            list[i] = x /\ \A j \in 1..(i - 1) : list[j] # x
    ELSE 0

\* The caller's side of an operation that adds anchors: the anchors handed to
\* the proxy are constructed, are different objects, and are not in the
\* layer's list yet.
CallerAdds(as) ==
    /\ \A i \in DOMAIN as : Allocated(as[i]) /\ as[i] \notin Range(anchors)
    /\ \A i, j \in DOMAIN as : as[i] = as[j] => i = j

\* a = GSAnchor(); a.name = n: the caller builds an anchor before handing it
\* to a collection.  _parent is the class default None.
GSAnchor_init(a, n) ==
    /\ OnlyAnchors
    /\ ~Allocated(a)
    /\ anchorName' = [anchorName EXCEPT ![a] = n]
    /\ anchorOp' = AOp("new", a, "none")
    /\ UNCHANGED <<anchorParent, anchors>>

\* LayerAnchorsProxy.append(anchor)
LayerAnchorsProxy_append(a) ==
    /\ OnlyAnchors
    /\ CallerAdds(<<a>>)
    /\ LET i == AnchorIndexOfName(anchors, anchorName, anchorName[a]) IN
       IF i # 0
       THEN /\ anchorParent' = [anchorParent EXCEPT ![a] = TheLayer]
            /\ anchors' = [anchors EXCEPT ![i] = a]
            /\ anchorOp' = AOp("append", a, "none")
       ELSE IF Truthy(anchorName[a])
       THEN /\ Len(anchors) < MaxAnchors
            /\ anchors' = Append(anchors, a)
            /\ anchorOp' = AOp("append", a, "none")
            /\ UNCHANGED anchorParent
       ELSE /\ anchorOp' = AOp("append", a, "ValueError")
            /\ UNCHANGED <<anchorParent, anchors>>
    /\ UNCHANGED anchorName

\* LayerAnchorsProxy.extend(anchors)
LayerAnchorsProxy_extend(as) ==
    /\ OnlyAnchors
    /\ CallerAdds(as)
    /\ Len(anchors) + Len(as) <= MaxAnchors
    /\ anchorParent' = [a \in AnchorIds |->
                          IF a \in Range(as) THEN TheLayer ELSE anchorParent[a]]
    /\ anchors' = anchors \o as
    /\ anchorOp' = AOp("extend", 0, "none")
    /\ UNCHANGED anchorName

\* LayerAnchorsProxy.insert(index, anchor), index in 0..len
LayerAnchorsProxy_insert(index, a) ==
    /\ OnlyAnchors
    /\ CallerAdds(<<a>>)
    /\ Len(anchors) < MaxAnchors
    /\ index \in 0..Len(anchors)
    /\ anchorParent' = [anchorParent EXCEPT ![a] = TheLayer]
    /\ anchors' = InsertAt(anchors, index, a)
    /\ anchorOp' = AOp("insert", a, "none")
    /\ UNCHANGED anchorName

\* LayerAnchorsProxy.__setitem__(key, anchor) with a string key
LayerAnchorsProxy_setitem(key, a) ==
    /\ OnlyAnchors
    /\ CallerAdds(<<a>>)
    /\ LET names == [anchorName EXCEPT ![a] = key]
           i == AnchorIndexOfName(anchors, names, key)
       IN  /\ anchorName' = names
           /\ IF i # 0
              THEN /\ anchors' = [anchors EXCEPT ![i] = a]
                   /\ UNCHANGED anchorParent
              ELSE /\ Len(anchors) < MaxAnchors
                   /\ anchorParent' = [anchorParent EXCEPT ![a] = TheLayer]
                   /\ anchors' = Append(anchors, a)
    /\ anchorOp' = AOp("setitem", a, "none")

\* LayerAnchorsProxy.__setitem__(key, anchor) with a key that is no string
LayerAnchorsProxy_setitem_nostr(a) ==
    /\ OnlyAnchors
    /\ CallerAdds(<<a>>)
    /\ anchorOp' = AOp("setitem", a, "TypeError")
    /\ UNCHANGED <<anchorName, anchorParent, anchors>>

\* LayerAnchorsProxy.__delitem__(key) with an integer key; Python's list
\* takes -len..len-1 and raises IndexError otherwise.
LayerAnchorsProxy_delitem_index(key) ==
    /\ OnlyAnchors
    /\ IF key >= -Len(anchors) /\ key < Len(anchors)
       THEN /\ anchors' = RemoveAt(anchors,
                                   IF key < 0 THEN Len(anchors) + key + 1
                                   ELSE key + 1)
            /\ anchorOp' = AOp("delitem", 0, "none")
       ELSE /\ anchorOp' = AOp("delitem", 0, "IndexError")
            /\ UNCHANGED anchors
    /\ UNCHANGED <<anchorName, anchorParent>>

\* LayerAnchorsProxy.__delitem__(key) with a string key
LayerAnchorsProxy_delitem_name(key) ==
    /\ OnlyAnchors
    /\ LET i == AnchorIndexOfName(anchors, anchorName, key) IN
       IF i # 0
       THEN /\ anchorParent' = [anchorParent EXCEPT ![anchors[i]] = None]
            /\ anchors' = RemoveAt(anchors, i)
       ELSE UNCHANGED <<anchorParent, anchors>>
    /\ anchorOp' = AOp("delitem", 0, "none")
    /\ UNCHANGED anchorName

\* LayerAnchorsProxy.remove(anchor) with an anchor object
LayerAnchorsProxy_remove(a) ==
    /\ OnlyAnchors
    /\ Allocated(a)
    /\ LET i == IndexOf(anchors, a) IN
       IF i # 0
       THEN /\ anchors' = RemoveAt(anchors, i)
            /\ anchorOp' = AOp("remove", a, "none")
       ELSE /\ anchorOp' = AOp("remove", a, "ValueError")
            /\ UNCHANGED anchors
    /\ UNCHANGED <<anchorName, anchorParent>>

\* LayerAnchorsProxy.setter(anchors) with a list
LayerAnchorsProxy_setter(as) ==
    /\ OnlyAnchors
    /\ \A i \in DOMAIN as : Allocated(as[i])
    /\ \A i, j \in DOMAIN as : as[i] = as[j] => i = j
    /\ anchors' = as
    /\ anchorParent' = [a \in AnchorIds |->
                          IF a \in Range(as) THEN TheLayer ELSE anchorParent[a]]
    /\ anchorOp' = AOp("setter", 0, "none")
    /\ UNCHANGED anchorName

NextAnchors ==
    \/ \E a \in AnchorIds, n \in AnchorNames : GSAnchor_init(a, n)
    \/ \E a \in AnchorIds : LayerAnchorsProxy_append(a)
    \/ \E as \in SeqsOf(AnchorIds, 1, MaxArgLen) : LayerAnchorsProxy_extend(as)
    \/ \E a \in AnchorIds, i \in 0..MaxAnchors : LayerAnchorsProxy_insert(i, a)
    \/ \E a \in AnchorIds, k \in AnchorNames \ {None} :
          LayerAnchorsProxy_setitem(k, a)
    \/ \E a \in AnchorIds : LayerAnchorsProxy_setitem_nostr(a)
    \/ \E k \in (-MaxAnchors - 1)..MaxAnchors :
          LayerAnchorsProxy_delitem_index(k)
    \/ \E k \in AnchorNames \ {None} : LayerAnchorsProxy_delitem_name(k)
    \/ \E a \in AnchorIds : LayerAnchorsProxy_remove(a)
    \/ \E as \in SeqsOf(AnchorIds, 0, MaxArgLen) : LayerAnchorsProxy_setter(as)

(***************************************************************************)
(* GSFont: the minor version.                                              *)
(***************************************************************************)
\* The largest minor version setVersionMinor accepts.
MaxVersionMinor == 999

\* The integers a run tries as minor version: around both ends of the range.
VersionValues ==
    (-VersionSlack..VersionSlack)
        \cup ((MaxVersionMinor - VersionSlack)..(MaxVersionMinor + VersionSlack))

FOp(op, v, err) == [op |-> op, v |-> v, err |-> err]

\* GSFont.__init__: self._versionMinor = 0
FontIdle ==
    /\ versionMinor = 0
    /\ fontOp = FOp("init", 0, "none")

\* GSFont.getVersionMinor
GSFont_getVersionMinor == versionMinor

\* A setVersionMinor whose range check lets 1000 through.
GSFont_setVersionMinor_upto1000(value) ==
    /\ OnlyFont
    /\ IF value >= 0 /\ value <= MaxVersionMinor + 1
       THEN /\ versionMinor' = value
            /\ fontOp' = FOp("setVersionMinor", value, "none")
       ELSE /\ fontOp' = FOp("setVersionMinor", value, "AssertionError")
            /\ UNCHANGED versionMinor

\* GSFont.setVersionMinor(value): font.versionMinor = value
GSFont_setVersionMinor(value) ==
    /\ OnlyFont
    /\ IF value >= 0 /\ value <= MaxVersionMinor
       THEN /\ versionMinor' = value
            /\ fontOp' = FOp("setVersionMinor", value, "none")
       ELSE /\ fontOp' = FOp("setVersionMinor", value, "AssertionError")
            /\ UNCHANGED versionMinor

\* GSBase.__setitem__("versionMinor", value) on the font with an integer
\* value: setattr runs the property's setter, and whatever it raises is
\* printed and dropped.
GSBase_setitem_versionMinor(value) ==
    /\ OnlyFont
    /\ versionMinor' = IF value >= 0 /\ value <= MaxVersionMinor
                       THEN value ELSE versionMinor
    /\ fontOp' = FOp("setitem", value, "none")

(***************************************************************************)
(* Python values held by custom parameters.  A string is the sequence of   *)
(* its characters; a value is tagged with its Python type.                 *)
(***************************************************************************)
StrV(chars) == [t |-> "str", i |-> 0, s |-> chars]
IntV(n) == [t |-> "int", i |-> n, s |-> <<>>]
BoolV(b) == [t |-> "bool", i |-> IF b THEN 1 ELSE 0, s |-> <<>>]
NoneV == [t |-> "none", i |-> 0, s |-> <<>>]
\* A point, a value of a baseType: with coordinates, or with the value None.
PointV(set) == [t |-> "point", i |-> IF set THEN 1 ELSE 0, s |-> <<>>]

\* The characters of the strings of a run.
Chars == {"0", "1", "-", "+"}
Digits == <<"0", "1", "2", "3", "4", "5", "6", "7", "8", "9">>
IsDigit(c) == \E d \in DOMAIN Digits : Digits[d] = c
DigitValue(c) == (CHOOSE d \in DOMAIN Digits : Digits[d] = c) - 1

\* The raw values a caller assigns.
RawValues ==
    {StrV(c) : c \in SeqsOf(Chars, 0, MaxStrLen)}
        \cup {IntV(n) : n \in (-MaxRawInt)..MaxRawInt}
        \cup {BoolV(TRUE), BoolV(FALSE), NoneV}

\* Python truth value of a value.
ValueTruthy(v) ==
    CASE v.t = "str" -> Len(v.s) > 0
      [] v.t = "int" -> v.i # 0
      [] v.t = "bool" -> v.i = 1
      [] OTHER -> FALSE

\* Whether int(chars) accepts the string: an optional sign, then digits.
IsIntLiteral(chars) ==
    LET body == IF Len(chars) > 0 /\ chars[1] \in {"-", "+"}
                THEN Tail(chars) ELSE chars
    IN  Len(body) > 0 /\ \A k \in DOMAIN body : IsDigit(body[k])

\* The digits read left to right, as int() accumulates them.
RECURSIVE DigitsToInt(_, _)
DigitsToInt(chars, acc) ==
    IF chars = <<>> THEN acc
    ELSE DigitsToInt(Tail(chars), acc * 10 + DigitValue(Head(chars)))

\* int(chars) for an accepted string.
ParseInt(chars) ==
    IF chars[1] = "-" THEN - DigitsToInt(Tail(chars), 0)
    ELSE IF chars[1] = "+" THEN DigitsToInt(Tail(chars), 0)
    ELSE DigitsToInt(chars, 0)

\* str(n) for an integer: its decimal digits, "-" first when negative.
RECURSIVE NatToStr(_)
NatToStr(n) ==
    IF n < 10 THEN <<Digits[n + 1]>>
    ELSE Append(NatToStr(n \div 10), Digits[(n % 10) + 1])

IntToStr(n) == IF n < 0 THEN <<"-">> \o NatToStr(-n) ELSE NatToStr(n)

\* str(v) / unicode(v) of a value.
PyStr(v) ==
    CASE v.t = "str" -> v.s
      [] v.t = "int" -> IntToStr(v.i)
      [] v.t = "bool" -> IF v.i = 1 THEN <<"T", "r", "u", "e">>
                         ELSE <<"F", "a", "l", "s", "e">>
      [] OTHER -> <<"N", "o", "n", "e">>

\* int(v): a result [err, value].
PyInt(v) ==
    CASE v.t = "str" -> IF IsIntLiteral(v.s)
                        THEN [err |-> "none", value |-> IntV(ParseInt(v.s))]
                        ELSE [err |-> "ValueError", value |-> NoneV]
      [] v.t = "int" -> [err |-> "none", value |-> IntV(v.i)]
      [] v.t = "bool" -> [err |-> "none", value |-> IntV(v.i)]
      [] OTHER -> [err |-> "TypeError", value |-> NoneV]

\* A generic assignment that zeroes the field when the value is not taken.
GSBase_setitem_versionMinor_bytes_reset(raw) ==
    /\ OnlyFont
    /\ LET r == PyInt(raw)
       IN  versionMinor' =
              IF r.err = "none" /\ r.value.i >= 0
                 /\ r.value.i <= MaxVersionMinor
              THEN r.value.i ELSE 0
    /\ fontOp' = FOp("setitem_bytes", raw, "none")

\* GSBase.__setitem__("versionMinor", value) on the font with a bytes
\* value: int().read(value) raises, int(value) is tried, setattr runs the
\* property's setter, and whatever is raised is printed and dropped.
GSBase_setitem_versionMinor_bytes(raw) ==
    /\ OnlyFont
    /\ LET r == PyInt(raw)
       IN  versionMinor' =
              IF r.err = "none" /\ r.value.i >= 0
                 /\ r.value.i <= MaxVersionMinor
              THEN r.value.i ELSE versionMinor
    /\ fontOp' = FOp("setitem_bytes", raw, "none")

\* The bytes values of a run.
BytesValues == {v \in RawValues : v.t = "str"}

NextFont ==
    \/ \E v \in VersionValues : GSFont_setVersionMinor(v)
    \/ \E v \in VersionValues : GSBase_setitem_versionMinor(v)
    \/ \E raw \in BytesValues : GSBase_setitem_versionMinor_bytes(raw)

(***************************************************************************)
(* GSCustomParameter.                                                      *)
(***************************************************************************)
CUSTOM_INT_PARAMS ==
    {"ascender", "blueShift", "capHeight", "descender", "hheaAscender",
     "hheaDescender", "hheaLineGap", "macintoshFONDFamilyID",
     "openTypeHeadLowestRecPPEM", "openTypeHheaAscender",
     "openTypeHheaCaretOffset", "openTypeHheaCaretSlopeRise",
     "openTypeHheaCaretSlopeRun", "openTypeHheaDescender",
     "openTypeHheaLineGap", "openTypeOS2StrikeoutPosition",
     "openTypeOS2StrikeoutSize", "openTypeOS2SubscriptXOffset",
     "openTypeOS2SubscriptXSize", "openTypeOS2SubscriptYOffset",
     "openTypeOS2SubscriptYSize", "openTypeOS2SuperscriptXOffset",
     "openTypeOS2SuperscriptXSize", "openTypeOS2SuperscriptYOffset",
     "openTypeOS2SuperscriptYSize", "openTypeOS2TypoAscender",
     "openTypeOS2TypoDescender", "openTypeOS2TypoLineGap",
     "openTypeOS2WeightClass", "openTypeOS2WidthClass",
     "openTypeOS2WinAscent", "openTypeOS2WinDescent",
     "openTypeVheaCaretOffset", "openTypeVheaCaretSlopeRise",
     "openTypeVheaCaretSlopeRun", "openTypeVheaVertTypoAscender",
     "openTypeVheaVertTypoDescender", "openTypeVheaVertTypoLineGap",
     "postscriptBlueFuzz", "postscriptBlueShift", "postscriptDefaultWidthX",
     "postscriptSlantAngle", "postscriptUnderlinePosition",
     "postscriptUnderlineThickness", "postscriptUniqueID",
     "postscriptWindowsCharacterSet", "shoulderHeight", "smallCapHeight",
     "typoAscender", "typoDescender", "typoLineGap", "underlinePosition",
     "underlineThickness", "unitsPerEm", "vheaVertAscender",
     "vheaVertDescender", "vheaVertLineGap", "weightClass", "widthClass",
     "winAscent", "winDescent", "xHeight", "year", "Grid Spacing"}

\* (the apostrophe of "Don't" stands for the source's U+2019)
CUSTOM_BOOL_PARAMS ==
    {"isFixedPitch", "postscriptForceBold", "postscriptIsFixedPitch",
     "Don't use Production Names", "DisableAllAutomaticBehaviour",
     "Use Typo Metrics", "Has WWS Names", "Use Extension Kerning"}

\* frozenset(('GASP Table')): the characters of the string, not the name.
CUSTOM_DICT_PARAMS == {"G", "A", "S", "P", " ", "T", "a", "b", "l", "e"}

\* The names of a run: every integer-coded and boolean-coded name, and
\* names that no set holds, "GASP Table" among them.  The float- and
\* integer-list-coded names and the one-character names that the dictionary
\* set holds, whose conversions live outside this file, are not among them.
ParamNames ==
    CUSTOM_INT_PARAMS \cup CUSTOM_BOOL_PARAMS
        \cup {"note", "New Value", "Master Name", "GASP Table"}

\* needsQuotes(name) for the names of a run: the ones with a character
\* that is no letter or digit.
NeedsQuotes(name) ==
    name \in {"Grid Spacing", "New Value", "Master Name", "GASP Table",
              "Don't use Production Names", "Use Typo Metrics",
              "Has WWS Names", "Use Extension Kerning"}

\* feature_syntax_encode(chars), left uninterpreted.
FeatureSyntaxEncode(chars) == <<"feature_syntax_encode(">> \o chars \o <<")">>

\* GSCustomParameter.setValue(value), the branch taken for a name of a run
\* or a name of the dictionary set: the rule that the value goes through.
SetValueRule(name) ==
    IF name \in CUSTOM_INT_PARAMS THEN "int"
    ELSE IF name \in CUSTOM_BOOL_PARAMS THEN "bool"
    ELSE IF name \in CUSTOM_DICT_PARAMS THEN "Parser.parse"
    ELSE IF name = "note" THEN "unicode"
    ELSE "pass-through"

\* A setValue that stores what it is given.
CastValue_nocast(name, raw) == [err |-> "none", value |-> raw]

\* GSCustomParameter.setValue(value), the cast: a result [err, value]
CastValue(name, raw) ==
    IF name \in CUSTOM_INT_PARAMS THEN PyInt(raw)
    ELSE IF name \in CUSTOM_BOOL_PARAMS
    THEN [err |-> "none", value |-> BoolV(ValueTruthy(raw))]
    ELSE IF name \in CUSTOM_DICT_PARAMS
    THEN [err |-> "unmodelled", value |-> NoneV]
    ELSE IF name = "note"
    THEN [err |-> "none", value |-> StrV(PyStr(raw))]
    ELSE [err |-> "none", value |-> raw]

\* GSCustomParameter.plistValue(), the text of the value: [err, text]
PlistValueText(name, value) ==
    IF name \in CUSTOM_INT_PARAMS
    THEN [err |-> "none", text |-> PyStr(value)]
    ELSE IF name \in CUSTOM_BOOL_PARAMS
    THEN [err |-> "none",
          text |-> IF ValueTruthy(value) THEN <<"1">> ELSE <<"0">>]
    ELSE IF value.t = "str"
    THEN [err |-> "none", text |-> FeatureSyntaxEncode(value.s)]
    ELSE [err |-> "TypeError", text |-> <<>>]

\* GSCustomParameter.plistValue(): [err, text], the text in pieces
GSCustomParameter_plistValue(name, value) ==
    LET nameText == IF NeedsQuotes(name) THEN <<"\"", name, "\"">>
                    ELSE <<name>>
        v == PlistValueText(name, value)
    IN  IF v.err # "none" THEN v
        ELSE [err |-> "none",
              text |-> <<"{\nname = ">> \o nameText \o <<";\nvalue = ">>
                          \o v.text \o <<";\n}">>]

POp(op, raw, err) == [op |-> op, raw |-> raw, err |-> err]

\* GSCustomParameter(): name="New Value", value="New Parameter"
ParamIdle ==
    /\ pName = "New Value"
    /\ pValue = StrV(<<"N", "e", "w", " ", "P", "a", "r", "a", "m", "e", "t",
                       "e", "r">>)
    /\ pOp = POp("init", NoneV, "none")

\* GSCustomParameter.getValue
GSCustomParameter_getValue == pValue

\* GSCustomParameter(name, value): self.name = name; self.value = value.
\* The parameter exists when the cast of its first value raised nothing.
GSCustomParameter_init(name, raw) ==
    /\ CastValue(name, raw).err = "none"
    /\ pName = name
    /\ pValue = CastValue(name, raw).value
    /\ pOp = POp("new", raw, "none")

\* GSCustomParameter.setValue(value): parameter.value = raw
GSCustomParameter_setValue(raw) ==
    /\ OnlyParam
    /\ LET r == CastValue(pName, raw) IN
       IF r.err = "none"
       THEN /\ pValue' = r.value
            /\ pOp' = POp("setValue", raw, "none")
       ELSE /\ pOp' = POp("setValue", raw, r.err)
            /\ UNCHANGED pValue
    /\ UNCHANGED pName

\* parameter.name = name: name is a plain attribute, the value stays
GSCustomParameter_setName(name) ==
    /\ OnlyParam
    /\ pName' = name
    /\ pOp' = POp("setName", NoneV, "none")
    /\ UNCHANGED pValue

NextParam ==
    \/ \E raw \in RawValues : GSCustomParameter_setValue(raw)

\* The names a run gives a parameter after its construction: an
\* integer-coded one, a boolean-coded one, one that no set holds.
RenameNames == {"unitsPerEm", "isFixedPitch", "New Value"}

\* One parameter whose name and value are assigned in any order.
NextParamName ==
    \/ \E raw \in RawValues : GSCustomParameter_setValue(raw)
    \/ \E name \in RenameNames : GSCustomParameter_setName(name)

(***************************************************************************)
(* CustomParametersProxy: the custom parameters of one owner.              *)
(***************************************************************************)
\* The owner of the store.
TheFont == "font"

\* The names used with the store: an integer-coded one, a boolean-coded one
\* and one that no set holds.
StoreNames == {"unitsPerEm", "isFixedPitch", "Master Name"}

\* The raw values used with the store: the shortest ones of RawValues.
StoreValues == {v \in RawValues : v.t = "str" => Len(v.s) <= 1}

\* A GSCustomParameter held by a list; parent is None while nothing set it.
Param(name, value, parent) == [name |-> name, value |-> value, parent |-> parent]

COp(op, key, raw, err) == [op |-> op, key |-> key, raw |-> raw, err |-> err]

\* GSFont.__init__: self._customParameters = []
StoreIdle ==
    /\ customParameters = <<>>
    /\ cpOp = COp("init", None, NoneV, "none")

\* for customParameter in list: if customParameter.name == key: the first
\* position with the name, 0 when there is none.
ParamIndexOfName(list, key) ==
    IF \E i \in DOMAIN list : list[i].name = key
    THEN CHOOSE i \in DOMAIN list :
            list[i].name = key /\ \A j \in 1..(i - 1) : list[j].name # key
    ELSE 0

\* CustomParametersProxy.__getitem__(key) with a string key: the value of
\* the first parameter of that name, None when there is none.
CustomParametersProxy_getitem(list, key) ==
    LET i == ParamIndexOfName(list, key) IN
    IF i # 0 THEN list[i].value ELSE NoneV

\* CustomParametersProxy.__setitem__(key, value) with a string key, on a
\* list: the list afterwards and the error raised, [list, err].
\* __getitem__ hands back the held value, a str, int or bool, and
\* "Value.value = value" on it raises AttributeError.
ProxySetItem(list, key, raw) ==
    LET Value == CustomParametersProxy_getitem(list, key)
        r == CastValue(key, raw)
    IN  IF Value # NoneV
        THEN [list |-> list, err |-> "AttributeError"]
        ELSE IF r.err = "none"
        THEN [list |-> Append(list, Param(key, r.value, None)), err |-> "none"]
        ELSE [list |-> list, err |-> r.err]

\* CustomParametersProxy.__delitem__(key) with an integer key, on a list:
\* [list, err]
ProxyDelIndex(list, key) ==
    IF key >= -Len(list) /\ key < Len(list)
    THEN [list |-> RemoveAt(list, IF key < 0 THEN Len(list) + key + 1
                                  ELSE key + 1),
          err |-> "none"]
    ELSE [list |-> list, err |-> "IndexError"]

\* font.customParameters[key] = raw
CustomParametersProxy_setitem(key, raw) ==
    /\ OnlyStore
    /\ LET r == ProxySetItem(customParameters, key, raw) IN
       /\ Len(r.list) <= MaxParams
       /\ customParameters' = r.list
       /\ cpOp' = COp("setitem", key, raw, r.err)

\* CustomParametersProxy.__setitem__(key, value) with an integer key:
\* __getitem__ hands back the parameter itself and its value is set.
CustomParametersProxy_setitem_index(key, raw) ==
    /\ OnlyStore
    /\ IF key >= -Len(customParameters) /\ key < Len(customParameters)
       THEN LET i == IF key < 0 THEN Len(customParameters) + key + 1
                     ELSE key + 1
                r == CastValue(customParameters[i].name, raw)
            IN  IF r.err = "none"
                THEN /\ customParameters' =
                           [customParameters EXCEPT ![i].value = r.value]
                     /\ cpOp' = COp("setitem_index", None, raw, "none")
                ELSE /\ cpOp' = COp("setitem_index", None, raw, r.err)
                     /\ UNCHANGED customParameters
       ELSE /\ cpOp' = COp("setitem_index", None, raw, "IndexError")
            /\ UNCHANGED customParameters

\* CustomParametersProxy.append(GSCustomParameter(name, raw))
CustomParametersProxy_append(name, raw) ==
    /\ OnlyStore
    /\ CastValue(name, raw).err = "none"
    /\ Len(customParameters) < MaxParams
    /\ customParameters' =
          Append(customParameters,
                 Param(name, CastValue(name, raw).value, TheFont))
    /\ cpOp' = COp("append", name, raw, "none")

\* del font.customParameters[key] with an integer key
CustomParametersProxy_delitem_index(key) ==
    /\ OnlyStore
    /\ customParameters' = ProxyDelIndex(customParameters, key).list
    /\ cpOp' = COp("delitem_index", None, NoneV,
                   ProxyDelIndex(customParameters, key).err)

NextStore ==
    \/ \E k \in StoreNames, raw \in StoreValues :
          CustomParametersProxy_setitem(k, raw)
    \/ \E k \in (-MaxParams - 1)..MaxParams, raw \in StoreValues :
          CustomParametersProxy_setitem_index(k, raw)
    \/ \E n \in StoreNames, raw \in StoreValues :
          CustomParametersProxy_append(n, raw)
    \/ \E k \in (-MaxParams - 1)..MaxParams :
          CustomParametersProxy_delitem_index(k)

(***************************************************************************)
(* GSFontMaster: the name.                                                 *)
(***************************************************************************)
\* The ids of the font's masters, in the order of font.masters.  The second
\* master is one as GSFontMaster() leaves it: its id is str(), the empty
\* string.
MasterIdNames == <<"M1", "", "M2", "M3">>
Masters == [k \in 1..NumMasters |-> MasterIdNames[k]]
MasterIds == Range(Masters)

\* abs(self.italicAngle) > 0.01, the angle counted in hundredths of a degree
ItalicThreshold == 1

\* The values a run assigns to the inputs of a master's name.
WeightValues == {None, "Regular", "Bold"}
WidthValues == {"Regular", "Condensed"}
CustomValues == {"", "Bold", "Text"}
Custom12Values == {None, "Caption"}
ItalicValues == {-1200, -1, 0, 1, 2}
MasterNameValues == {StrV(<<"Display">>), StrV(<<>>)}

MOp(op, m, err, val, parts) ==
    [op |-> op, m |-> m, err |-> err, val |-> val, parts |-> parts]

\* GSFontMaster.__init__, but for _custom, _custom1 and _custom2
MastersNew ==
    /\ mName = [m \in MasterIds |-> None]
    /\ mWeight = [m \in MasterIds |-> "Regular"]
    /\ mWidth = [m \in MasterIds |-> "Regular"]
    /\ mItalic = [m \in MasterIds |-> 0]
    /\ mParams = [m \in MasterIds |-> <<>>]
    /\ mOp = MOp("init", None, "none", None, <<>>)

\* GSFontMaster.__init__
MastersIdle ==
    /\ MastersNew
    /\ mCustom = [m \in MasterIds |-> <<"", None, None>>]

\* The pieces of a string value, as one string.
RECURSIVE Flatten(_)
Flatten(pieces) ==
    IF pieces = <<>> THEN "" ELSE Head(pieces) \o Flatten(Tail(pieces))

\* " ".join(names)
RECURSIVE JoinSpace(_)
JoinSpace(names) ==
    IF names = <<>> THEN ""
    ELSE IF Len(names) = 1 THEN names[1]
    ELSE names[1] \o " " \o JoinSpace(Tail(names))

\* if (c and len(c) and c not in names): names.append(c)
AppendCustom(names, c) ==
    IF Truthy(c) /\ c \notin Range(names) THEN Append(names, c) ELSE names

Abs(n) == IF n < 0 THEN -n ELSE n

\* The body of the name property after "if name is None": the names list
\* and what the statements on it do, [err, val, parts].
ComputedName(weight, width, custom, italic) ==
    LET names == AppendCustom(AppendCustom(AppendCustom(
                     <<weight, width>>, custom[1]), custom[2]), custom[3])
        i == IndexOf(names, "Regular")
        left == RemoveAt(names, i)
    IN  IF Len(names) > 1 /\ i = 0
        THEN [err |-> "ValueError", val |-> None, parts |-> names]
        ELSE IF Abs(italic) > ItalicThreshold
        THEN [err |-> "AttributeError", val |-> None, parts |-> left]
        ELSE IF None \in Range(left)
        THEN [err |-> "TypeError", val |-> None, parts |-> left]
        ELSE [err |-> "none", val |-> JoinSpace(left), parts |-> left]

\* GSFontMaster.name when _name is None: the "Master Name" parameter when
\* there is one, the computed name otherwise; [err, val, parts].
FreshName(m) ==
    LET name == CustomParametersProxy_getitem(mParams[m], "Master Name") IN
    IF name # NoneV
    THEN [err |-> "none", val |-> Flatten(name.s), parts |-> <<>>]
    ELSE ComputedName(mWeight[m], mWidth[m], mCustom[m], mItalic[m])

\* What reading GSFontMaster.name gives: [err, val, parts]
GSFontMaster_nameValue(m) ==
    IF mName[m] # None
    THEN [err |-> "none", val |-> mName[m], parts |-> <<>>]
    ELSE FreshName(m)

\* A name property that computes and does not keep what it computed.
GSFontMaster_nameCache_unkept(m) ==
    mName[m]

\* What reading GSFontMaster.name leaves in _name: self._name = name
GSFontMaster_nameCache(m) ==
    IF mName[m] = None /\ FreshName(m).err = "none"
    THEN FreshName(m).val ELSE mName[m]

\* Reading master.name
GSFontMaster_name(m) ==
    /\ OnlyMasters
    /\ mName' = [mName EXCEPT ![m] = GSFontMaster_nameCache(m)]
    /\ LET r == GSFontMaster_nameValue(m) IN
       mOp' = MOp("name", m, r.err, r.val, r.parts)
    /\ UNCHANGED <<mWeight, mWidth, mCustom, mItalic, mParams>>

\* master.weight = value
GSFontMaster_setWeight(m, value) ==
    /\ OnlyMasters
    /\ mWeight' = [mWeight EXCEPT ![m] = value]
    /\ mOp' = MOp("weight", m, "none", None, <<>>)
    /\ UNCHANGED <<mName, mWidth, mCustom, mItalic, mParams>>

\* master.width = value
GSFontMaster_setWidth(m, value) ==
    /\ OnlyMasters
    /\ mWidth' = [mWidth EXCEPT ![m] = value]
    /\ mOp' = MOp("width", m, "none", None, <<>>)
    /\ UNCHANGED <<mName, mWeight, mCustom, mItalic, mParams>>

\* master.customName = value
GSFontMaster_setCustomName(m, value) ==
    /\ OnlyMasters
    /\ mCustom' = [mCustom EXCEPT ![m][1] = value]
    /\ mOp' = MOp("customName", m, "none", None, <<>>)
    /\ UNCHANGED <<mName, mWeight, mWidth, mItalic, mParams>>

\* master.italicAngle = value
GSFontMaster_setItalicAngle(m, value) ==
    /\ OnlyMasters
    /\ mItalic' = [mItalic EXCEPT ![m] = value]
    /\ mOp' = MOp("italicAngle", m, "none", None, <<>>)
    /\ UNCHANGED <<mName, mWeight, mWidth, mCustom, mParams>>

\* master.customParameters["Master Name"] = raw
GSFontMaster_setMasterNameParameter(m, raw) ==
    /\ OnlyMasters
    /\ LET r == ProxySetItem(mParams[m], "Master Name", raw) IN
       /\ Len(r.list) <= MaxParams
       /\ mParams' = [mParams EXCEPT ![m] = r.list]
       /\ mOp' = MOp("setParameter", m, r.err, None, <<>>)
    /\ UNCHANGED <<mName, mWeight, mWidth, mCustom, mItalic>>

\* del master.customParameters[0]
GSFontMaster_delParameter(m) ==
    /\ OnlyMasters
    /\ LET r == ProxyDelIndex(mParams[m], 0) IN
       /\ mParams' = [mParams EXCEPT ![m] = r.list]
       /\ mOp' = MOp("delParameter", m, r.err, None, <<>>)
    /\ UNCHANGED <<mName, mWeight, mWidth, mCustom, mItalic>>

\* The master whose name inputs a run of SpecMaster changes.
FirstMaster == Masters[1]

NextMaster ==
    \/ GSFontMaster_name(FirstMaster)
    \/ \E v \in WeightValues : GSFontMaster_setWeight(FirstMaster, v)
    \/ \E v \in WidthValues : GSFontMaster_setWidth(FirstMaster, v)
    \/ \E v \in CustomValues : GSFontMaster_setCustomName(FirstMaster, v)
    \/ \E v \in ItalicValues : GSFontMaster_setItalicAngle(FirstMaster, v)
    \/ \E v \in MasterNameValues :
          GSFontMaster_setMasterNameParameter(FirstMaster, v)
    \/ GSFontMaster_delParameter(FirstMaster)

(***************************************************************************)
(* GSLayer, GSGlyph and GlyphLayerProxy.                                   *)
(***************************************************************************)
LayerIds == 1..NumLayers
TheGlyph == "glyph"

\* An attribute that has never been assigned: GSLayer has no parent until
\* _setupLayer gives it one.
Unset == "<unset>"

\* layerId and associatedMasterId of a layer as GSLayer() leaves it, of a
\* master layer, of a layer of its own id.
LayerIdPairs == {<<"", "">>, <<FirstMaster, FirstMaster>>, <<"L1", FirstMaster>>}
\* The lists a caller replaces the layers with: lists of different layers.
LayerLists ==
    {values \in SeqsOf(LayerIds, 0, MaxLayersArg) :
        \A i, j \in DOMAIN values : i # j => values[i] # values[j]}
\* The id of a layer constructed with layerId and associatedMasterId equal.
EqualIdInputs == {"", FirstMaster}
\* The integer keys a caller reads the layers with.
LayerIndexes == {-1, 0, 1}
LayerKeys == {FirstMaster}
LayerNameInputs == {"Alt"}
LayerWeightInputs == {None, "Regular", "Bold"}

LayerConstructed(l) == layerId[l] # Unalloc

LOp(op, l, key, values, err, val, ret) ==
    [op |-> op, l |-> l, key |-> key, values |-> values, err |-> err,
     val |-> val, ret |-> ret]

\* GSGlyph.__init__, no GSLayer constructed yet
LayersIdle ==
    /\ layerId = [l \in LayerIds |-> Unalloc]
    /\ layerAssoc = [l \in LayerIds |-> Unalloc]
    /\ layerParent = [l \in LayerIds |-> Unset]
    /\ layerName = [l \in LayerIds |-> Unalloc]
    /\ glyphLayers = <<>>
    /\ glyphParent = None
    /\ lOp = LOp("init", 0, None, <<>>, "none", None, 0)

\* layer = GSLayer(); layer.layerId = id; layer.associatedMasterId = assoc
GSLayer_init(l, id, assoc) ==
    /\ OnlyLayers
    /\ UNCHANGED masterVars
    /\ ~ LayerConstructed(l)
    /\ \A k \in 1..(l - 1) : LayerConstructed(k)
    /\ layerId' = [layerId EXCEPT ![l] = id]
    /\ layerAssoc' = [layerAssoc EXCEPT ![l] = assoc]
    /\ layerName' = [layerName EXCEPT ![l] = "Regular"]
    /\ lOp' = LOp("GSLayer", l, None, <<>>, "none", None, 0)
    /\ UNCHANGED <<layerParent, glyphLayers, glyphParent>>

\* GSFont.masterForId(key): the master, here its id, or None
GSFont_masterForId(key) ==
    IF \E k \in DOMAIN Masters : Masters[k] = key THEN key ELSE None

\* The attributes of the layers that _setupLayer writes.
LayerAttrs == [id |-> layerId, assoc |-> layerAssoc, parent |-> layerParent]

\* GSGlyph._setupLayer(layer, key) of a glyph whose parent is gParent, on
\* the attributes attrs
GSGlyph_setupLayer(attrs, l, key, gParent) ==
    [id |-> [attrs.id EXCEPT ![l] = key],
     parent |-> [attrs.parent EXCEPT ![l] = TheGlyph],
     assoc |-> IF gParent # None /\ GSFont_masterForId(key) # None
               THEN [attrs.assoc EXCEPT ![l] = key]
               ELSE attrs.assoc]

\* d[key] = l on an OrderedDict with new keys put first.
OrderedDictSet_front(d, key, l) ==
    IF \E i \in DOMAIN d : d[i].key = key
    THEN [i \in DOMAIN d |->
             IF d[i].key = key THEN [key |-> key, layer |-> l] ELSE d[i]]
    ELSE <<[key |-> key, layer |-> l]>> \o d

\* d[key] = l on an OrderedDict: a held key keeps its place, a new one goes
\* last.
OrderedDictSet(d, key, l) ==
    IF \E i \in DOMAIN d : d[i].key = key
    THEN [i \in DOMAIN d |->
             IF d[i].key = key THEN [key |-> key, layer |-> l] ELSE d[i]]
    ELSE Append(d, [key |-> key, layer |-> l])

\* for layer in values: newLayers[layer.layerId] = layer
RECURSIVE NewLayers(_, _)
NewLayers(d, values) ==
    IF values = <<>> THEN d
    ELSE NewLayers(OrderedDictSet(d, layerId[Head(values)], Head(values)),
                   Tail(values))

\* for (key, layer) in newLayers.items(): self._owner._setupLayer(layer, key)
RECURSIVE SetupLayers(_, _, _)
SetupLayers(attrs, entries, gParent) ==
    IF entries = <<>> THEN attrs
    ELSE SetupLayers(GSGlyph_setupLayer(attrs, Head(entries).layer,
                                        Head(entries).key, gParent),
                     Tail(entries), gParent)

\* The types of value GlyphLayerProxy.setter takes the layers from.
LayerSetterTypes == {"list", "tuple", "GlyphLayerProxy", "dict"}

\* glyph.layers = values, values of type tp and yielding the layers values
GlyphLayerProxy_setter(tp, values) ==
    /\ OnlyLayers
    /\ UNCHANGED masterVars
    /\ \A i \in DOMAIN values : LayerConstructed(values[i])
    /\ IF tp \in LayerSetterTypes
       THEN LET newLayers == NewLayers(<<>>, values)
                attrs == SetupLayers(LayerAttrs, newLayers, glyphParent)
            IN  /\ layerId' = attrs.id
                /\ layerAssoc' = attrs.assoc
                /\ layerParent' = attrs.parent
                /\ glyphLayers' = newLayers
                /\ lOp' = LOp("setter", 0, None, values, "none", tp, 0)
       ELSE /\ lOp' = LOp("setter", 0, None, values, "TypeError", tp, 0)
            /\ UNCHANGED <<layerId, layerAssoc, layerParent, glyphLayers>>
    /\ UNCHANGED <<layerName, glyphParent>>

\* glyph.layers[key] = layer, key a string
GlyphLayerProxy_setitem(key, l) ==
    /\ OnlyLayers
    /\ UNCHANGED masterVars
    /\ LayerConstructed(l)
    /\ LET attrs == GSGlyph_setupLayer(LayerAttrs, l, key, glyphParent) IN
       /\ layerId' = attrs.id
       /\ layerAssoc' = attrs.assoc
       /\ layerParent' = attrs.parent
    /\ glyphLayers' = OrderedDictSet(glyphLayers, key, l)
    /\ Len(glyphLayers') <= MaxLayersArg
    /\ lOp' = LOp("setitem", l, key, <<>>, "none", None, 0)
    /\ UNCHANGED <<layerName, glyphParent>>

\* list(self._owner._layers.values())[key] after "if key < 0: key = len + key":
\* the position, from 1, that glyph.layers[key] reads; 0 for an IndexError.
\* A key still negative after the adjustment counts from the end again.
LayerPosition(d, key) ==
    LET k1 == IF key < 0 THEN Len(d) + key ELSE key
        k2 == IF k1 < 0 THEN Len(d) + k1 ELSE k1
    IN  IF k2 >= 0 /\ k2 < Len(d) THEN k2 + 1 ELSE 0

\* glyph.layers[key], key an integer
GlyphLayerProxy_getitem_index(key) ==
    /\ OnlyLayers
    /\ UNCHANGED masterVars
    /\ lOp' = IF LayerPosition(glyphLayers, key) = 0
              THEN LOp("getitem_index", 0, key, <<>>, "IndexError", None, 0)
              ELSE LOp("getitem_index", 0, key, <<>>, "none", None,
                       glyphLayers[LayerPosition(glyphLayers, key)].layer)
    /\ UNCHANGED <<layerId, layerAssoc, layerParent, layerName, glyphLayers,
                   glyphParent>>

\* The layers _setupGlyph sets up: those of the glyph with no
\* associatedMasterId, in the order of glyph.layers.values().
RECURSIVE UnassociatedEntries(_)
UnassociatedEntries(d) ==
    IF d = <<>> THEN <<>>
    ELSE IF layerAssoc[Head(d).layer] \in {None, ""}
    THEN <<[key |-> layerId[Head(d).layer], layer |-> Head(d).layer]>>
            \o UnassociatedEntries(Tail(d))
    ELSE UnassociatedEntries(Tail(d))

\* font.glyphs.append(glyph): GSFont._setupGlyph(glyph)
FontGlyphsProxy_append ==
    /\ OnlyLayers
    /\ UNCHANGED masterVars
    /\ glyphParent = None
    /\ glyphParent' = TheFont
    /\ LET attrs == SetupLayers(LayerAttrs, UnassociatedEntries(glyphLayers),
                                TheFont)
       IN  /\ layerId' = attrs.id
           /\ layerAssoc' = attrs.assoc
           /\ layerParent' = attrs.parent
    /\ lOp' = LOp("glyphs.append", 0, None, <<>>, "none", None, 0)
    /\ UNCHANGED <<layerName, glyphLayers>>

\* layer.name = value
GSLayer_setName(l, value) ==
    /\ OnlyLayers
    /\ UNCHANGED masterVars
    /\ LayerConstructed(l)
    /\ layerName' = [layerName EXCEPT ![l] = value]
    /\ lOp' = LOp("setName", l, None, <<>>, "none", None, 0)
    /\ UNCHANGED <<layerId, layerAssoc, layerParent, glyphLayers, glyphParent>>

\* A name property that answers with the layer's own _name.
GSLayer_nameMaster_never(l) ==
    [err |-> "none", m |-> None]

\* The condition part of GSLayer.name: the master whose name the layer
\* reports, None when it reports its own _name, and the error the
\* attribute lookups raise; [err, m]
GSLayer_nameMaster(l) ==
    IF ~ (Truthy(layerAssoc[l]) /\ layerAssoc[l] = layerId[l])
    THEN [err |-> "none", m |-> None]
    ELSE IF layerParent[l] = Unset
    THEN [err |-> "AttributeError", m |-> None]
    ELSE IF glyphParent = None
    THEN [err |-> "AttributeError", m |-> None]
    ELSE [err |-> "none", m |-> GSFont_masterForId(layerAssoc[l])]

\* What reading GSLayer.name gives: [err, val]
GSLayer_nameValue(l) ==
    LET c == GSLayer_nameMaster(l) IN
    IF c.err # "none" THEN [err |-> c.err, val |-> None]
    ELSE IF c.m # None
    THEN [err |-> GSFontMaster_nameValue(c.m).err,
          val |-> GSFontMaster_nameValue(c.m).val]
    ELSE [err |-> "none", val |-> layerName[l]]

\* Reading layer.name
GSLayer_name(l) ==
    /\ OnlyLayers
    /\ LayerConstructed(l)
    /\ lOp' = LOp("name", l, None, <<>>, GSLayer_nameValue(l).err,
                  GSLayer_nameValue(l).val, 0)
    /\ mName' = IF GSLayer_nameMaster(l).m # None
                THEN [mName EXCEPT ![GSLayer_nameMaster(l).m] =
                         GSFontMaster_nameCache(GSLayer_nameMaster(l).m)]
                ELSE mName
    /\ UNCHANGED <<mWeight, mWidth, mCustom, mItalic, mParams, mOp>>
    /\ UNCHANGED <<layerId, layerAssoc, layerParent, layerName, glyphLayers,
                   glyphParent>>

\* What uuid.uuid4() returns: identifiers no layer and no master has.
UuidNames == <<"U1", "U2", "U3", "U4">>
Uuids == {UuidNames[k] : k \in LayerIds}
FreshUuids ==
    {u \in Uuids :
        /\ \A l \in LayerIds : layerId[l] # u
        /\ \A i \in DOMAIN glyphLayers : glyphLayers[i].key # u}

\* An append that leaves a missing associatedMasterId missing.
AppendIds_nodefault(l, u) ==
    [id |-> IF Truthy(layerId[l]) THEN layerId[l] ELSE u,
     assoc |-> layerAssoc[l]]

\* The two "if not" statements of GlyphLayerProxy.append: the ids of the
\* layer before _setupLayer, u what uuid4() returns
AppendIds(l, u) ==
    [id |-> IF Truthy(layerId[l]) THEN layerId[l] ELSE u,
     assoc |-> IF Truthy(layerAssoc[l]) THEN layerAssoc[l] ELSE Masters[1]]

\* glyph.layers.append(layer)
GlyphLayerProxy_append(l) ==
    /\ OnlyLayers
    /\ UNCHANGED masterVars
    /\ LayerConstructed(l)
    /\ IF ~ Truthy(layerAssoc[l]) /\ glyphParent = None
       THEN /\ lOp' = LOp("append", l, None, <<>>, "AttributeError", None, 0)
            /\ UNCHANGED <<layerId, layerAssoc, layerParent, glyphLayers>>
       ELSE \E u \in FreshUuids :
               LET ids == AppendIds(l, u)
                   given == [LayerAttrs EXCEPT !.id[l] = ids.id,
                                               !.assoc[l] = ids.assoc]
                   attrs == GSGlyph_setupLayer(given, l, ids.id, glyphParent)
               IN  /\ layerId' = attrs.id
                   /\ layerAssoc' = attrs.assoc
                   /\ layerParent' = attrs.parent
                   /\ glyphLayers' = OrderedDictSet(glyphLayers, ids.id, l)
                   /\ Len(glyphLayers') <= MaxLayersArg
                   /\ lOp' = LOp("append", l, None, <<>>, "none", None, 0)
    /\ UNCHANGED <<layerName, glyphParent>>

\* del glyph.layers[key], key a string
GlyphLayerProxy_delitem(key) ==
    /\ OnlyLayers
    /\ UNCHANGED masterVars
    /\ IF \E i \in DOMAIN glyphLayers : glyphLayers[i].key = key
       THEN /\ glyphLayers' =
                  RemoveAt(glyphLayers,
                           CHOOSE i \in DOMAIN glyphLayers :
                               glyphLayers[i].key = key)
            /\ lOp' = LOp("delitem", 0, key, <<>>, "none", None, 0)
       ELSE /\ lOp' = LOp("delitem", 0, key, <<>>, "KeyError", None, 0)
            /\ UNCHANGED glyphLayers
    /\ UNCHANGED <<layerId, layerAssoc, layerParent, layerName, glyphParent>>

\* The layer GSLayer() constructs next.
NewLayer ==
    CHOOSE l \in LayerIds :
        ~ LayerConstructed(l) /\ \A k \in 1..(l - 1) : LayerConstructed(k)

\* glyph.layers[key], key a string
GlyphLayerProxy_getitem_id(key) ==
    /\ OnlyLayers
    /\ UNCHANGED masterVars
    /\ IF \E i \in DOMAIN glyphLayers : glyphLayers[i].key = key
       THEN /\ lOp' = LOp("getitem", 0, key, <<>>, "none", None,
                          (CHOOSE e \in Range(glyphLayers) : e.key = key).layer)
            /\ UNCHANGED <<layerId, layerAssoc, layerParent, layerName,
                           glyphLayers>>
       ELSE IF glyphParent = None
       THEN /\ lOp' = LOp("getitem", 0, key, <<>>, "AttributeError", None, 0)
            /\ UNCHANGED <<layerId, layerAssoc, layerParent, layerName,
                           glyphLayers>>
       ELSE IF key \in MasterIds
       THEN /\ \E l \in LayerIds : ~ LayerConstructed(l)
            /\ LET l == NewLayer
                   given == [LayerAttrs EXCEPT !.id[l] = "", !.assoc[l] = ""]
                   attrs == GSGlyph_setupLayer(given, l, key, glyphParent)
               IN  /\ layerId' = attrs.id
                   /\ layerAssoc' = attrs.assoc
                   /\ layerParent' = attrs.parent
                   /\ layerName' = [layerName EXCEPT ![l] = "Regular"]
                   /\ glyphLayers' = OrderedDictSet(glyphLayers, key, l)
                   /\ lOp' = LOp("getitem", 0, key, <<>>, "none", None, l)
       ELSE /\ lOp' = LOp("getitem", 0, key, <<>>, "none", None, 0)
            /\ UNCHANGED <<layerId, layerAssoc, layerParent, layerName,
                           glyphLayers>>
    /\ UNCHANGED glyphParent

\* The ids a caller looks layers up by: a master's, one that is no master's.
LookupKeys == {FirstMaster, "L1"}

\* The types of the values a caller replaces the layers with.
ValueTypes == {"list", "GlyphLayerProxy", "set", "int"}

\* The ids of the layers a caller appends: a layer as GSLayer() leaves it,
\* a layer of its own id, a layer with a master's id and another master's
\* as its associatedMasterId.
AppendIdPairs == {<<"", "">>, <<"L1", FirstMaster>>, <<FirstMaster, Masters[3]>>}

\* The ids a caller deletes by.
DeleteKeys == {"L1", FirstMaster} \cup Uuids

\* Appends to the glyph's layers.
NextLayerAppend ==
    \/ \E l \in LayerIds, ids \in AppendIdPairs :
          GSLayer_init(l, ids[1], ids[2])
    \/ \E l \in LayerIds : GlyphLayerProxy_append(l)
    \/ \E key \in DeleteKeys : GlyphLayerProxy_delitem(key)
    \/ \E key \in LookupKeys : GlyphLayerProxy_getitem_id(key)
    \/ \E tp \in ValueTypes, l \in LayerIds :
          GlyphLayerProxy_setter(tp, IF tp = "list" THEN <<l>> ELSE <<>>)
    \/ FontGlyphsProxy_append

\* The layer collection of the glyph.
NextLayers ==
    \/ \E l \in LayerIds, ids \in LayerIdPairs :
          GSLayer_init(l, ids[1], ids[2])
    \/ \E values \in LayerLists : GlyphLayerProxy_setter("list", values)
    \/ \E key \in LayerKeys, l \in LayerIds : GlyphLayerProxy_setitem(key, l)
    \/ \E key \in LayerIndexes : GlyphLayerProxy_getitem_index(key)
    \/ FontGlyphsProxy_append

\* The names of the layers and of the first master.
NextLayerNames ==
    \/ \E l \in LayerIds, id \in EqualIdInputs : GSLayer_init(l, id, id)
    \/ \E l \in LayerIds : GlyphLayerProxy_setter("list", <<l>>)
    \/ FontGlyphsProxy_append
    \/ \E l \in LayerIds, v \in LayerNameInputs : GSLayer_setName(l, v)
    \/ \E l \in LayerIds : GSLayer_name(l)
    \/ \E v \in LayerWeightInputs : GSFontMaster_setWeight(FirstMaster, v)
    \/ GSFontMaster_name(FirstMaster)

(***************************************************************************)
(* FontGlyphsProxy: the lookup of a glyph by a string.                     *)
(***************************************************************************)
\* GSGlyph.name and GSGlyph.unicode of the glyphs of the run: the name a
\* GSGlyph() starts with, a letter, a name that reads as a codepoint.
GlyphNameValues == {NoneV, StrV(<<"A">>), StrV(<<"0", "0", "4", "A">>)}
GlyphUnicodeValues ==
    {NoneV, StrV(<<"0", "0", "4", "1">>), StrV(<<"0", "0", "4", "A">>),
     StrV(<<"0", "0", "4", "a">>)}

\* The strings a caller looks glyphs up by.
GlyphKeys ==
    {<<"A">>, <<"J">>, <<"0", "0", "4", "a">>, <<"0", "0", "4", "A">>}

GOp(op, key, ret) ==
    [op |-> op, key |-> key, ret |-> ret, idx |-> 0, err |-> "none"]

\* An operation by an integer index, the error it raised and the position
\* of the glyph it returned (0 when it returned nothing).
GOpIndex(op, idx, ret, err) ==
    [op |-> op, key |-> <<>>, ret |-> ret, idx |-> idx, err |-> err]

\* GSFont.__init__: self._glyphs = []
GlyphsIdle ==
    /\ fontGlyphs = <<>>
    /\ gOp = GOp("init", <<>>, 0)

\* ord(c) of the characters of the run
Ord(c) ==
    CASE c = "0" -> 48
      [] c = "1" -> 49
      [] c = "4" -> 52
      [] c = "A" -> 65
      [] c = "J" -> 74
      [] c = "a" -> 97

LowerHexDigits ==
    <<"0", "1", "2", "3", "4", "5", "6", "7", "8", "9",
      "a", "b", "c", "d", "e", "f">>
UpperHexDigits ==
    <<"0", "1", "2", "3", "4", "5", "6", "7", "8", "9",
      "A", "B", "C", "D", "E", "F">>

\* The digits of n to the base 16, taken from the sequence digits.
RECURSIVE ToHex(_, _)
ToHex(n, digits) ==
    IF n < 16 THEN <<digits[n + 1]>>
    ELSE Append(ToHex(n \div 16, digits), digits[(n % 16) + 1])

\* "%04x" % n: the digits in lower case.
Format04X_lower(n) ==
    LET h == ToHex(n, LowerHexDigits)
    IN  [i \in 1..(IF Len(h) < 4 THEN 4 - Len(h) ELSE 0) |-> "0"] \o h

\* "%04X" % n: upper-case hexadecimal digits, zeros in front up to four
Format04X(n) ==
    LET h == ToHex(n, UpperHexDigits)
    IN  [i \in 1..(IF Len(h) < 4 THEN 4 - Len(h) ELSE 0) |-> "0"] \o h

\* key.upper(): the letters a-z made capitals
Upper(chars) ==
    LET lower == <<"a", "b", "c", "d", "e", "f", "g", "h", "i", "j", "k",
                   "l", "m", "n", "o", "p", "q", "r", "s", "t", "u", "v",
                   "w", "x", "y", "z">>
        upper == <<"A", "B", "C", "D", "E", "F", "G", "H", "I", "J", "K",
                   "L", "M", "N", "O", "P", "Q", "R", "S", "T", "U", "V",
                   "W", "X", "Y", "Z">>
    IN  [i \in DOMAIN chars |->
            IF \E k \in DOMAIN lower : lower[k] = chars[i]
            THEN upper[CHOOSE k \in DOMAIN lower : lower[k] = chars[i]]
            ELSE chars[i]]

\* for glyph in self._owner._glyphs: if glyph.<field> == value: return
\* glyph -- the position of the first such glyph, 0 when the loop ends
FirstGlyphWith(field, value) ==
    IF \E i \in DOMAIN fontGlyphs : fontGlyphs[i][field] = value
    THEN CHOOSE i \in DOMAIN fontGlyphs :
            /\ fontGlyphs[i][field] = value
            /\ \A j \in 1..(i - 1) : fontGlyphs[j][field] # value
    ELSE 0

\* font.glyphs[key], key a string
FontGlyphsProxy_getitem(key) ==
    /\ OnlyGlyphs
    /\ LET byName == FirstGlyphWith("name", StrV(key))
           byUnicode ==
               IF Len(key) = 1
               THEN FirstGlyphWith("unicode", StrV(Format04X(Ord(key[1]))))
               ELSE FirstGlyphWith("unicode", StrV(Upper(key)))
       IN  gOp' = GOp("getitem", key, IF byName # 0 THEN byName ELSE byUnicode)
    /\ UNCHANGED fontGlyphs

\* glyph = GSGlyph(name); glyph.unicode = unicode;
\* font.glyphs.append(glyph)
FontGlyphsProxy_append_glyph(name, unicode) ==
    /\ OnlyGlyphs
    /\ Len(fontGlyphs) < MaxGlyphs
    /\ fontGlyphs' = Append(fontGlyphs, [name |-> name, unicode |-> unicode])
    /\ gOp' = GOp("append", <<>>, 0)

\* Whether list[key] exists, key a Python index.
IndexInRange(list, key) == key >= -Len(list) /\ key < Len(list)

\* The position (from 1) that the Python index key names in list.
PositionOf(list, key) == IF key < 0 THEN Len(list) + key + 1 ELSE key + 1

\* FontGlyphsProxy.__delitem__(key), key an int: del(self._owner._glyph[key]).
\* A GSFont has _glyphs and no attribute _glyph.
FontGlyphsProxy_delitem(key) ==
    /\ OnlyGlyphs
    /\ gOp' = GOpIndex("delitem", key, 0, "AttributeError")
    /\ UNCHANGED fontGlyphs

\* Proxy.pop(i) on font.glyphs, i an int: node = self[i]; del self[i];
\* return node
Proxy_pop_glyphs(i) ==
    /\ OnlyGlyphs
    /\ gOp' = GOpIndex("pop", i, 0,
                       IF IndexInRange(fontGlyphs, i) THEN "AttributeError"
                       ELSE "IndexError")
    /\ UNCHANGED fontGlyphs

\* The glyphs of a font, appended, deleted and popped by integer indices.
NextGlyphsDel ==
    \/ \E name \in GlyphNameValues, unicode \in GlyphUnicodeValues :
          FontGlyphsProxy_append_glyph(name, unicode)
    \/ \E key \in (-MaxGlyphs - 1)..MaxGlyphs : FontGlyphsProxy_delitem(key)
    \/ \E i \in (-MaxGlyphs - 1)..MaxGlyphs : Proxy_pop_glyphs(i)

\* The glyphs of a font, appended and looked up by strings.
NextGlyphs ==
    \/ \E name \in GlyphNameValues, unicode \in GlyphUnicodeValues :
          FontGlyphsProxy_append_glyph(name, unicode)
    \/ \E key \in GlyphKeys : FontGlyphsProxy_getitem(key)

(***************************************************************************)
(* shouldWriteValueForKey.                                                 *)
(***************************************************************************)
\* The entity and field of each question of the run, and the values the
\* fields are given.
WrittenKeys ==
    {<<"GSFont", "unitsPerEm">>, <<"GSFont", "versionMinor">>,
     <<"GSFontMaster", "width">>, <<"GSFontMaster", "weight">>,
     <<"GSFontMaster", "italicAngle">>, <<"GSLayer", "width">>,
     <<"GSPath", "closed">>}
FieldInputs ==
    {<<"GSFont", "unitsPerEm", IntV(0)>>, <<"GSFont", "unitsPerEm", IntV(1000)>>,
     <<"GSLayer", "width", IntV(0)>>, <<"GSLayer", "width", IntV(600)>>,
     <<"GSPath", "closed", BoolV(TRUE)>>, <<"GSPath", "closed", BoolV(FALSE)>>}

\* The fields asked about that no class has a rule of its own for, and the
\* values they are given.
PolicyKeys ==
    {<<"GSFontMaster", "weightValue">>, <<"GSFontMaster", "italicAngle">>,
     <<"GSAnchor", "position">>}
PolicyInputs ==
    {<<"GSFontMaster", "weightValue", IntV(0)>>,
     <<"GSFontMaster", "weightValue", IntV(50)>>,
     <<"GSFontMaster", "weightValue", IntV(100)>>,
     <<"GSAnchor", "position", PointV(FALSE)>>,
     <<"GSAnchor", "position", PointV(TRUE)>>}

\* GSFont, GSLayer and GSPath as constructed: no upm and no closed
\* attribute yet, a width of float().  GSFontMaster and GSAnchor as
\* constructed: the declared default weightValue, a position of point().
WriteIdle ==
    /\ upm = NoneV
    /\ layerWidth = IntV(0)
    /\ pathClosed = NoneV
    /\ weightValue = IntV(100)
    /\ position = PointV(FALSE)
    /\ wOp = [cls |-> "init", key |-> "", val |-> NoneV, ret |-> FALSE]

\* GSBase.__setitem__(key, value) with a value of the field's type:
\* setattr(self, self._wrapperKeysTranslate.get(key, key), value)
GSBase_setitem(cls, key, value) ==
    /\ OnlyWrite
    /\ UNCHANGED <<fontVars, masterVars>>
    /\ upm' = IF cls = "GSFont" /\ key = "unitsPerEm" THEN value ELSE upm
    /\ layerWidth' = IF cls = "GSLayer" /\ key = "width" THEN value
                     ELSE layerWidth
    /\ pathClosed' = IF cls = "GSPath" /\ key = "closed" THEN value
                     ELSE pathClosed
    /\ weightValue' = IF cls = "GSFontMaster" /\ key = "weightValue"
                      THEN value ELSE weightValue
    /\ position' = IF cls = "GSAnchor" /\ key = "position" THEN value
                   ELSE position
    /\ UNCHANGED wOp

\* getattr(self, getKey), self._classesForName[key] and
\* self._defaultsForName.get(key, None) of the fields of the run
FieldOf(cls, key) ==
    CASE cls = "GSFont" /\ key = "unitsPerEm" ->
            [value |-> upm, klass |-> "int", default |-> IntV(1000)]
      [] cls = "GSFont" /\ key = "versionMinor" ->
            [value |-> IntV(GSFont_getVersionMinor), klass |-> "int",
             default |-> NoneV]
      [] cls = "GSFontMaster" /\ key = "width" ->
            [value |-> mWidth[FirstMaster], klass |-> "str", default |-> NoneV]
      [] cls = "GSFontMaster" /\ key = "weight" ->
            [value |-> mWeight[FirstMaster], klass |-> "str", default |-> NoneV]
      [] cls = "GSFontMaster" /\ key = "italicAngle" ->
            [value |-> IntV(mItalic[FirstMaster]), klass |-> "float",
             default |-> NoneV]
      [] cls = "GSFontMaster" /\ key = "weightValue" ->
            [value |-> weightValue, klass |-> "float", default |-> IntV(100)]
      [] cls = "GSAnchor" /\ key = "position" ->
            [value |-> position, klass |-> "point", default |-> NoneV]
      [] cls = "GSLayer" /\ key = "width" ->
            [value |-> layerWidth, klass |-> "float", default |-> NoneV]
      [] cls = "GSPath" /\ key = "closed" ->
            [value |-> pathClosed, klass |-> "bool", default |-> BoolV(TRUE)]

\* value == 0 in Python: the integer or float 0, or False
IsZero(value) == value.t \in {"int", "bool"} /\ value.i = 0

\* isinstance(value, baseType) and value.value is None
IsEmptyWrapper(value) == value.t = "point" /\ value.i = 0

\* A policy that looks at a zero before it looks at the declared default.
GSBase_shouldWriteValueForKey_zeroFirst(cls, key) ==
    LET f == FieldOf(cls, key)
    IN  IF f.klass \in {"int", "float", "bool"} /\ IsZero(f.value)
        THEN FALSE
        ELSE IF f.default # NoneV THEN f.default # f.value
        ELSE IF IsEmptyWrapper(f.value) THEN FALSE
        ELSE TRUE

\* GSBase.shouldWriteValueForKey(key)
GSBase_shouldWriteValueForKey(cls, key) ==
    LET f == FieldOf(cls, key)
    IN  IF f.default # NoneV THEN f.default # f.value
        ELSE IF f.klass \in {"int", "float", "bool"} /\ IsZero(f.value)
        THEN FALSE
        ELSE IF IsEmptyWrapper(f.value) THEN FALSE
        ELSE TRUE

\* A GSFont that always writes the units per em only.
GSFont_shouldWriteValueForKey_upmOnly(key) ==
    IF key \in {"unitsPerEm"} THEN TRUE
    ELSE GSBase_shouldWriteValueForKey("GSFont", key)

\* GSFont.shouldWriteValueForKey(key)
GSFont_shouldWriteValueForKey(key) ==
    IF key \in {"unitsPerEm", "versionMinor"} THEN TRUE
    ELSE GSBase_shouldWriteValueForKey("GSFont", key)

\* A master that writes its width and weight whatever they are.
GSFontMaster_shouldWriteValueForKey_always(key) ==
    IF key \in {"width", "weight"}
    THEN TRUE
    ELSE GSBase_shouldWriteValueForKey("GSFontMaster", key)

\* GSFontMaster.shouldWriteValueForKey(key)
GSFontMaster_shouldWriteValueForKey(key) ==
    IF key \in {"width", "weight"}
    THEN FieldOf("GSFontMaster", key).value # "Regular"
    ELSE GSBase_shouldWriteValueForKey("GSFontMaster", key)

\* GSLayer.shouldWriteValueForKey(key) of the first layer, but for the key
\* backgroundImage; key in ("width") asks whether key is a part of the
\* string "width"
GSLayer_shouldWriteValueForKey(key) ==
    IF key \in {"associatedMasterId", "name"}
    THEN layerId[1] # layerAssoc[1]
    ELSE IF key \in {"", "w", "i", "d", "t", "h", "wi", "id", "dt", "th",
                     "wid", "idt", "dth", "widt", "idth", "width"}
    THEN TRUE
    ELSE GSBase_shouldWriteValueForKey("GSLayer", key)

\* GSPath.shouldWriteValueForKey(key)
GSPath_shouldWriteValueForKey(key) ==
    IF key = "closed" THEN TRUE
    ELSE GSBase_shouldWriteValueForKey("GSPath", key)

\* entity.shouldWriteValueForKey(key), entity of the class cls
shouldWriteValueForKey(cls, key) ==
    /\ OnlyWrite
    /\ UNCHANGED <<fontVars, masterVars>>
    /\ wOp' = [cls |-> cls, key |-> key, val |-> FieldOf(cls, key).value,
               ret |-> CASE cls = "GSFont" ->
                                GSFont_shouldWriteValueForKey(key)
                         [] cls = "GSFontMaster" ->
                                GSFontMaster_shouldWriteValueForKey(key)
                         [] cls = "GSLayer" ->
                                GSLayer_shouldWriteValueForKey(key)
                         [] cls = "GSPath" ->
                                GSPath_shouldWriteValueForKey(key)
                         [] cls = "GSAnchor" ->
                                GSBase_shouldWriteValueForKey(cls, key)]
    /\ UNCHANGED <<upm, layerWidth, pathClosed, weightValue, position>>

\* The writer's questions, between changes of the fields asked about.
NextWrite ==
    \/ \E k \in WrittenKeys : shouldWriteValueForKey(k[1], k[2])
    \/ \E f \in FieldInputs : GSBase_setitem(f[1], f[2], f[3])
    \/ \E v \in {0, 3} : GSFont_setVersionMinor(v)
    \/ \E v \in WidthValues : GSFontMaster_setWidth(FirstMaster, v)
    \/ \E v \in WeightValues : GSFontMaster_setWeight(FirstMaster, v)

\* A font with one glyph and its master layer: the master's weight and
\* width are set, asked about, and read through the layer's name.
NextScenario ==
    \/ \E l \in LayerIds : GSLayer_init(l, FirstMaster, FirstMaster)
    \/ \E l \in LayerIds : GlyphLayerProxy_setter("list", <<l>>)
    \/ FontGlyphsProxy_append
    \/ \E v \in WeightValues : GSFontMaster_setWeight(FirstMaster, v)
    \/ \E v \in WidthValues : GSFontMaster_setWidth(FirstMaster, v)
    \/ \E l \in LayerIds : GSLayer_name(l)
    \/ \E key \in {"weight", "width"} :
          shouldWriteValueForKey("GSFontMaster", key)

\* The writer's questions about fields under the general policy.
NextPolicy ==
    \/ \E k \in PolicyKeys : shouldWriteValueForKey(k[1], k[2])
    \/ \E f \in PolicyInputs : GSBase_setitem(f[1], f[2], f[3])
    \/ \E v \in ItalicValues : GSFontMaster_setItalicAngle(FirstMaster, v)

(***************************************************************************)
(* GSFont: the path it is saved to.                                        *)
(***************************************************************************)
\* The paths of a run.
PathValues == {"P.glyphs", "Q.glyphs"}

SOp(op, path, err) == [op |-> op, path |-> path, err |-> err]

\* GSFont.__init__(path), path None or the path of a readable file
GSFont_init(path) ==
    /\ filepath = None
    /\ opened = path
    /\ written = <<>>
    /\ sOp = SOp("GSFont", path, "none")

\* GSFont()
SaveIdle == GSFont_init(None)

\* font.filepath = path
GSFont_setFilepath(path) ==
    /\ OnlySave
    /\ filepath' = path
    /\ sOp' = SOp("filepath", path, "none")
    /\ UNCHANGED <<opened, written>>

\* GSFont.save(path): GlyphsWriter(path).write(self)
GSFont_save(path) ==
    /\ OnlySave
    /\ Len(written) < MaxSaves
    /\ IF Truthy(filepath)
       THEN /\ written' = Append(written, filepath)
            /\ sOp' = SOp("save", path, "none")
       ELSE IF path = None
       THEN /\ sOp' = SOp("save", path, "ValueError")
            /\ UNCHANGED written
       ELSE /\ written' = Append(written, path)
            /\ sOp' = SOp("save", path, "none")
    /\ UNCHANGED <<filepath, opened>>

\* A font, constructed with or without a path, saved.
NextSave ==
    \/ \E path \in PathValues \cup {None} : GSFont_save(path)
    \/ \E path \in PathValues \cup {None} : GSFont_setFilepath(path)

(***************************************************************************)
(* UserDataProxy: the user data of the glyphs and masters.                 *)
(***************************************************************************)
\* The objects of a run, two of one class and one of another, and the
\* key and values written.
UserDataOwners == {"glyph1", "glyph2", "master1"}
UserDataKeys == {"k1"}
UserDataValues == {"v1", "v2"}

\* The class of an object: where its attributes are looked up when the
\* object has none of its own.
ClassOf(owner) == IF owner = "master1" THEN "GSFontMaster" ELSE "GSGlyph"

\* No entry under a key.
Absent == "<absent>"

\* {}
EmptyDict == [k \in UserDataKeys |-> Absent]

\* An object's own _userData attribute: none set, None, or a dict.
NoAttribute == [kind |-> "unset", d |-> EmptyDict]
NoneAttribute == [kind |-> "none", d |-> EmptyDict]
DictAttribute(d) == [kind |-> "dict", d |-> d]

UOp(op, owner, err) == [op |-> op, owner |-> owner, err |-> err]

\* _userData = {} in the body of GSFontMaster and of GSGlyph; no __init__
\* assigns self._userData.
UserIdle ==
    /\ classUserData = [c \in {"GSFontMaster", "GSGlyph"} |-> EmptyDict]
    /\ ownUserData = [o \in UserDataOwners |-> NoAttribute]
    /\ uOp = UOp("init", None, "none")

\* self._owner._userData: the object's own attribute when it has one, the
\* attribute of its class otherwise.
OwnerUserData(owner) ==
    IF ownUserData[owner].kind = "unset"
    THEN DictAttribute(classUserData[ClassOf(owner)])
    ELSE ownUserData[owner]

\* UserDataProxy.__setitem__(key, value): owner.userData[key] = value
UserDataProxy_setitem(owner, key, value) ==
    /\ OnlyUser
    /\ IF OwnerUserData(owner).kind # "none"
       THEN IF ownUserData[owner].kind = "unset"
            THEN /\ classUserData' =
                       [classUserData EXCEPT ![ClassOf(owner)][key] = value]
                 /\ UNCHANGED ownUserData
            ELSE /\ ownUserData' = [ownUserData EXCEPT ![owner].d[key] = value]
                 /\ UNCHANGED classUserData
       ELSE /\ ownUserData' =
                  [ownUserData EXCEPT
                      ![owner] = DictAttribute([EmptyDict EXCEPT ![key] = value])]
            /\ UNCHANGED classUserData
    /\ uOp' = UOp("setitem", owner, "none")

\* UserDataProxy.__delitem__(key): del owner.userData[key]
UserDataProxy_delitem(owner, key) ==
    /\ OnlyUser
    /\ IF OwnerUserData(owner).kind = "none"
       THEN /\ uOp' = UOp("delitem", owner, "TypeError")
            /\ UNCHANGED <<classUserData, ownUserData>>
       ELSE /\ uOp' = UOp("delitem", owner, "none")
            /\ IF ownUserData[owner].kind = "unset"
               THEN /\ classUserData' =
                          [classUserData EXCEPT ![ClassOf(owner)][key] = Absent]
                    /\ UNCHANGED ownUserData
               ELSE /\ ownUserData' =
                          [ownUserData EXCEPT ![owner].d[key] = Absent]
                    /\ UNCHANGED classUserData

\* UserDataProxy.setter(values): owner.userData = values, values a new
\* empty dict or None
UserDataProxy_setter(owner, values) ==
    /\ OnlyUser
    /\ ownUserData' = [ownUserData EXCEPT ![owner] = values]
    /\ UNCHANGED classUserData
    /\ uOp' = UOp("setter", owner, "none")

\* The user data read from an object: its keys and their values, or None.
UserDataObserved(owner) == OwnerUserData(owner)

NextUser ==
    \/ \E o \in UserDataOwners, k \in UserDataKeys, v \in UserDataValues :
          UserDataProxy_setitem(o, k, v)
    \/ \E o \in UserDataOwners, k \in UserDataKeys :
          UserDataProxy_delitem(o, k)
    \/ \E o \in UserDataOwners, values \in {NoneAttribute, DictAttribute(EmptyDict)} :
          UserDataProxy_setter(o, values)

(***************************************************************************)
(* GSInstance: the names kept in custom parameters.  A string is the       *)
(* sequence of its words and spaces.                                       *)
(***************************************************************************)
\* Most custom parameters of the instance.
MaxInstanceParams == 2

\* GSFont.__init__: self.familyName = "Unnamed font"
FontFamilyName == <<"Unnamed", " ", "font">>

\* The names given to the instance, and the four style names.
StyleNames == {<<"Regular">>, <<"Bold">>, <<"Italic">>, <<"Bold", " ", "Italic">>}
InstanceNames == {<<"Regular">>, <<"Bold", " ", "Italic">>, <<"Light">>}

\* The properties with a setter, and the values assigned to them.
InstanceProperties ==
    {"familyName", "preferredFamily", "preferredSubfamilyName",
     "windowsFamily", "fontName", "fullName"}
InstanceValues == {StrV(<<"0">>), StrV(<<"1">>), StrV(<<>>)}

IOp(op, prop, v, err) == [op |-> op, prop |-> prop, v |-> v, err |-> err]

\* GSInstance.__init__: self.name = "Regular"; self._customParameters = []
InstanceIdle ==
    /\ iName = <<"Regular">>
    /\ iParams = <<>>
    /\ iOp = IOp("init", None, NoneV, "none")

\* The custom parameter a property's getter reads.
GetterKey(prop) ==
    CASE prop = "windowsFamily" -> "styleMapFamilyName"
      [] prop = "fontName" -> "postscriptFontName"
      [] prop = "fullName" -> "postscriptFullName"
      [] OTHER -> prop

\* The custom parameter a property's setter writes.
SetterKey(prop) ==
    CASE prop = "familyName" -> "famiyName"
      [] prop = "windowsFamily" -> "styleMapFamilyName"
      [] prop = "fontName" -> "postscriptFontName"
      [] prop = "fullName" -> "postscriptFullName"
      [] OTHER -> prop

\* "".join(chars.split(" "))
WithoutSpaces(chars) == SelectSeq(chars, LAMBDA c : c # " ")

\* GSInstance.familyName, the getter
GSInstance_familyName(params) ==
    LET value == CustomParametersProxy_getitem(params, "familyName") IN
    IF ValueTruthy(value) THEN value ELSE StrV(FontFamilyName)

\* The getters of GSInstance: the value read from a property of an
\* instance of this name with these custom parameters.
GSInstance_property(prop, params, name) ==
    LET value == CustomParametersProxy_getitem(params, GetterKey(prop))
        family == PyStr(GSInstance_familyName(params))
    IN  IF ValueTruthy(value) THEN value
        ELSE CASE prop \in {"familyName", "preferredFamily"} ->
                    StrV(FontFamilyName)
               [] prop = "preferredSubfamilyName" -> StrV(name)
               [] prop = "windowsFamily" ->
                    IF name \notin StyleNames
                    THEN StrV(family \o <<" ">> \o name)
                    ELSE StrV(family)
               [] prop = "fontName" ->
                    StrV(WithoutSpaces(family) \o <<"-">> \o name)
               [] prop = "fullName" -> StrV(family \o <<" ">> \o name)

\* instance.<prop>, read now
GSInstance_get(prop) == GSInstance_property(prop, iParams, iName)

\* instance.<prop> = value: self.customParameters[<key>] = value
GSInstance_set(prop, value) ==
    /\ OnlyInstance
    /\ LET r == ProxySetItem(iParams, SetterKey(prop), value) IN
       /\ Len(r.list) <= MaxInstanceParams
       /\ iParams' = r.list
       /\ iOp' = IOp("set", prop, value, r.err)
    /\ UNCHANGED iName

\* instance.name = name
GSInstance_setName(name) ==
    /\ OnlyInstance
    /\ iName' = name
    /\ iOp' = IOp("setName", None, NoneV, "none")
    /\ UNCHANGED iParams

NextInstance ==
    \/ \E prop \in InstanceProperties, v \in InstanceValues :
          GSInstance_set(prop, v)
    \/ \E name \in InstanceNames : GSInstance_setName(name)

(***************************************************************************)
(* Specifications.                                                         *)
(***************************************************************************)
Init ==
    /\ UserIdle
    /\ InstanceIdle
    /\ AnchorIdle
    /\ SaveIdle
    /\ GlyphsIdle
    /\ WriteIdle
    /\ FontIdle
    /\ ParamIdle
    /\ StoreIdle
    /\ MastersIdle
    /\ LayersIdle

\* A layer's anchor collection under every operation of its proxy.
SpecAnchors == Init /\ [][NextAnchors]_vars

\* A font's minor version under direct and generic assignment.
SpecFont == Init /\ [][NextFont]_vars

\* One custom parameter, constructed with any name and value of the run,
\* under value assignment.
InitParam ==
    /\ UserIdle
    /\ InstanceIdle
    /\ AnchorIdle
    /\ SaveIdle
    /\ GlyphsIdle
    /\ WriteIdle
    /\ FontIdle
    /\ StoreIdle
    /\ MastersIdle
    /\ LayersIdle
    /\ \E n \in ParamNames, raw \in RawValues : GSCustomParameter_init(n, raw)

SpecParam == InitParam /\ [][NextParam]_vars

\* The custom parameters of one owner under the operations of their proxy.
\* A parameter as GSCustomParameter() leaves it, then named and valued in
\* any order.
SpecParamName == Init /\ [][NextParamName]_vars

SpecStore == Init /\ [][NextStore]_vars

\* One master under reads of its name and changes of the name's inputs.
\* _custom1 and _custom2 have no setter: a run starts with the first master
\* holding any of their values.
InitMaster ==
    /\ UserIdle
    /\ InstanceIdle
    /\ AnchorIdle
    /\ SaveIdle
    /\ GlyphsIdle
    /\ WriteIdle
    /\ FontIdle
    /\ ParamIdle
    /\ StoreIdle
    /\ LayersIdle
    /\ MastersNew
    /\ \E c1, c2 \in Custom12Values :
          mCustom = [m \in MasterIds |->
                        IF m = FirstMaster THEN <<"", c1, c2>>
                        ELSE <<"", None, None>>]

SpecMaster == InitMaster /\ [][NextMaster]_vars

\* One glyph and its layer collection.
SpecLayers == Init /\ [][NextLayers]_vars

\* One glyph, layers appended to it and deleted from it.
SpecLayerAppend == Init /\ [][NextLayerAppend]_vars

\* The layers of one glyph and the font's first master, under reads and
\* changes of their names.
SpecLayerNames == Init /\ [][NextLayerNames]_vars

\* The glyphs of one font.
SpecGlyphs == Init /\ [][NextGlyphs]_vars

\* One font, master, layer and path, asked which fields to write.
SpecWrite == Init /\ [][NextWrite]_vars

\* One master and one anchor, asked which of their plain fields to write.
SpecPolicy == Init /\ [][NextPolicy]_vars

\* One font, constructed from a path or from nothing, under saves.
InitSave ==
    /\ UserIdle
    /\ InstanceIdle
    /\ AnchorIdle
    /\ FontIdle
    /\ ParamIdle
    /\ StoreIdle
    /\ MastersIdle
    /\ LayersIdle
    /\ GlyphsIdle
    /\ WriteIdle
    /\ \E path \in PathValues \cup {None} : GSFont_init(path)

SpecSave == InitSave /\ [][NextSave]_vars

\* One master, asked about its weight and width and named by its layer.
SpecScenario == Init /\ [][NextScenario]_vars

\* The glyphs of a font, appended and removed by position.
SpecGlyphsDel == Init /\ [][NextGlyphsDel]_vars

\* The user data of two glyphs and a master, written, deleted and replaced.
SpecUser == Init /\ [][NextUser]_vars

\* One instance of the font, named and given its name properties.
SpecInstance == Init /\ [][NextInstance]_vars

(***************************************************************************)
(* Claims about the anchor collection.                                     *)
(***************************************************************************)
\* The positions of a list whose anchor has name n.
AnchorsNamed(list, names, n) == {i \in DOMAIN list : names[list[i]] = n}

\* C1: appending two anchors with the same name, one right after the other,
\* leaves exactly one anchor under that name, the second one, at the position
\* the first one had, and the list no longer than after the first append.
\* (Stated for two different anchor objects with a non-empty name.)
C1_AppendTwiceKeepsOne ==
    [][(/\ anchorOp.op = "append" /\ anchorOp.err = "none"
        /\ anchorOp'.op = "append" /\ anchorOp'.err = "none"
        /\ anchorOp.a # anchorOp'.a
        /\ Truthy(anchorName[anchorOp'.a])
        /\ anchorName[anchorOp.a] = anchorName[anchorOp'.a])
       => (/\ AnchorsNamed(anchors', anchorName', anchorName[anchorOp'.a])
                = {IndexOf(anchors', anchorOp'.a)}
           /\ IndexOf(anchors', anchorOp'.a) = IndexOf(anchors, anchorOp.a)
           /\ IndexOf(anchors', anchorOp'.a) # 0
           /\ Len(anchors') = Len(anchors))]_vars

\* C2: no two different anchors held by the layer have the same name.
C2_AnchorNamesUnique ==
    \A i, j \in DOMAIN anchors :
        anchors[i] # anchors[j] => anchorName[anchors[i]] # anchorName[anchors[j]]

\* C3: an append of an anchor whose name is None or empty raises an error
\* and leaves the anchor list as it was.
C3_UnnamedAppendRejected ==
    [][(anchorOp'.op = "append" /\ ~Truthy(anchorName[anchorOp'.a]))
       => (anchorOp'.err = "ValueError" /\ anchors' = anchors)]_vars

(***************************************************************************)
(* Claims about the font's minor version.                                  *)
(***************************************************************************)
\* C4: the stored minor version is always within 0..999; an assignment of a
\* value outside 0..999 raises and keeps the previous value; an assignment
\* of a value inside 0..999 raises nothing and the value is read back.
C4_VersionMinorRange ==
    /\ [](GSFont_getVersionMinor \in 0..999)
    /\ [][fontOp'.op = "setVersionMinor"
          => IF fontOp'.v \in 0..999
             THEN fontOp'.err = "none" /\ GSFont_getVersionMinor' = fontOp'.v
             ELSE /\ fontOp'.err = "AssertionError"
                  /\ GSFont_getVersionMinor' = GSFont_getVersionMinor]_vars

\* C4 witness: 1000 has just been rejected and the minor version 999, set
\* before, is still there.
C4_Witness ==
    /\ fontOp = FOp("setVersionMinor", 1000, "AssertionError")
    /\ GSFont_getVersionMinor = 999

(***************************************************************************)
(* Claims about one custom parameter.                                      *)
(***************************************************************************)
\* A decimal numeral: an optional sign, then one digit or more.
IsDecimal(chars) ==
    \E k \in 0..1 :
        /\ Len(chars) > k
        /\ k = 1 => chars[1] \in {"-", "+"}
        /\ \A j \in (k + 1)..Len(chars) : IsDigit(chars[j])

\* 10 to the power k.
RECURSIVE Pow10(_)
Pow10(k) == IF k = 0 THEN 1 ELSE 10 * Pow10(k - 1)

\* The sum of the elements of a sequence of integers.
RECURSIVE SumSeq(_)
SumSeq(q) == IF q = <<>> THEN 0 ELSE Head(q) + SumSeq(Tail(q))

\* The number a decimal numeral denotes, by the place value of its digits.
DecimalValue(chars) ==
    LET signed == chars[1] \in {"-", "+"}
        digs == IF signed THEN Tail(chars) ELSE chars
        mag == SumSeq([j \in DOMAIN digs |->
                          DigitValue(digs[j]) * Pow10(Len(digs) - j)])
    IN  IF chars[1] = "-" THEN - mag ELSE mag

\* A numeral in the form str() writes: no "+", no leading zero, no "-0".
IsCanonicalDecimal(chars) ==
    /\ IsDecimal(chars)
    /\ chars[1] # "+"
    /\ LET digs == IF chars[1] = "-" THEN Tail(chars) ELSE chars IN
       /\ Len(digs) > 1 => digs[1] # "0"
       /\ chars[1] = "-" => digs # <<"0">>

\* The parameter has just been given a decimal numeral as a string, under an
\* integer-coded name.
DecimalAssigned ==
    /\ pOp.op \in {"new", "setValue"}
    /\ pName \in CUSTOM_INT_PARAMS
    /\ pOp.raw.t = "str"
    /\ IsDecimal(pOp.raw.s)

\* C5 as stated: a decimal string assigned under an integer-coded name is
\* stored as the integer it denotes and is rendered as the same text,
\* unquoted, in the value position.
C5_DecimalRoundTrip ==
    DecimalAssigned
    => /\ pOp.err = "none"
       /\ GSCustomParameter_getValue = IntV(DecimalValue(pOp.raw.s))
       /\ PlistValueText(pName, pValue) = [err |-> "none", text |-> pOp.raw.s]

\* C5 amended: the stored value is the integer the string denotes; the
\* rendered value is an unquoted canonical numeral of the same number, in the
\* value position of the parameter's text; it is the assigned text whenever
\* that text is canonical.
C5_DecimalRoundTripCanonical ==
    DecimalAssigned
    => LET r == PlistValueText(pName, pValue)
           whole == GSCustomParameter_plistValue(pName, pValue)
       IN  /\ pOp.err = "none"
           /\ GSCustomParameter_getValue = IntV(DecimalValue(pOp.raw.s))
           /\ r.err = "none"
           /\ IsCanonicalDecimal(r.text)
           /\ DecimalValue(r.text) = DecimalValue(pOp.raw.s)
           /\ IsCanonicalDecimal(pOp.raw.s) => r.text = pOp.raw.s
           /\ whole.err = "none"
           /\ \E k \in DOMAIN whole.text :
                 /\ whole.text[k] = ";\nvalue = "
                 /\ SubSeq(whole.text, k + 1, Len(whole.text))
                        = r.text \o <<";\n}">>

\* C5 witness: the string "10" has been assigned to unitsPerEm with
\* setValue and is rendered as 10.
C5_Witness ==
    /\ pName = "unitsPerEm"
    /\ pOp = POp("setValue", StrV(<<"1", "0">>), "none")
    /\ GSCustomParameter_plistValue(pName, pValue).text
          = <<"{\nname = ", "unitsPerEm", ";\nvalue = ", "1", "0", ";\n}">>

(***************************************************************************)
(* Claims about the custom parameter store.                                *)
(***************************************************************************)
\* The names of a parameter list, in order.
ParamNamesOf(list) == [i \in DOMAIN list |-> list[i].name]

\* C10: setting a parameter by name with a value its name accepts updates
\* the held parameter of that name in place (same length, same names in the
\* same order, the lookup by that name gives the cast value), and appends one
\* parameter of that name and value when none is held.
C10_SetByNameUpdatesInPlace ==
    [][(cpOp'.op = "setitem"
        /\ CastValue(cpOp'.key, cpOp'.raw).err = "none")
       => IF ParamIndexOfName(customParameters, cpOp'.key) # 0
          THEN /\ cpOp'.err = "none"
               /\ ParamNamesOf(customParameters')
                     = ParamNamesOf(customParameters)
               /\ CustomParametersProxy_getitem(customParameters', cpOp'.key)
                     = CastValue(cpOp'.key, cpOp'.raw).value
          ELSE /\ cpOp'.err = "none"
               /\ Len(customParameters') = Len(customParameters) + 1
               /\ SubSeq(customParameters', 1, Len(customParameters))
                     = customParameters
               /\ customParameters'[Len(customParameters')].name = cpOp'.key
               /\ customParameters'[Len(customParameters')].value
                     = CastValue(cpOp'.key, cpOp'.raw).value]_vars


(***************************************************************************)
(* Claims about a master's name.                                           *)
(***************************************************************************)
\* The non-empty name components of a master.
NameComponents(m) ==
    {c \in {mWeight[m], mWidth[m], mCustom[m][1], mCustom[m][2],
            mCustom[m][3]} : Truthy(c)}

\* C6 as stated: the first read of a master's name, with no name kept and
\* no "Master Name" parameter, returns without error; "Regular" is absent
\* from what it returns exactly when the master has another non-empty name
\* component, and "Italic" is appended exactly when the italic angle is
\* more than 0.01 degrees either way.
C6_FirstReadComposesName ==
    [][\A m \in MasterIds :
          (/\ mOp'.op = "name"
           /\ mOp'.m = m
           /\ mName[m] = None
           /\ CustomParametersProxy_getitem(mParams[m], "Master Name") = NoneV)
          => /\ mOp'.err = "none"
             /\ "Regular" \notin Range(mOp'.parts)
                   <=> NameComponents(m) \ {"Regular"} # {}
             /\ (/\ mOp'.parts # <<>>
                 /\ mOp'.parts[Len(mOp'.parts)] = "Italic")
                   <=> Abs(mItalic[m]) > ItalicThreshold]_vars

\* C7: a read of a master's name that returns a value leaves that value
\* kept; a kept name never changes, whatever is done to the master's
\* weight, width, custom name, italic angle or custom parameters; and every
\* read of a master with a kept name returns the kept name without error.
C7_NameFrozenAfterFirstRead ==
    [][\A m \in MasterIds :
          /\ (mOp'.op = "name" /\ mOp'.m = m /\ mOp'.err = "none")
                => mName'[m] = mOp'.val
          /\ mName[m] # None => mName'[m] = mName[m]
          /\ (mName[m] # None /\ mOp'.op = "name" /\ mOp'.m = m)
                => mOp'.err = "none" /\ mOp'.val = mName[m]]_vars

\* C7 witness: a read has just returned the kept name of a master whose
\* inputs have changed since, so that composing the name anew would raise
\* or give another name.
C7_Witness ==
    \E m \in MasterIds :
        /\ mOp.op = "name"
        /\ mOp.m = m
        /\ mOp.err = "none"
        /\ mName[m] # None
        /\ mOp.val = mName[m]
        /\ FreshName(m).val # mName[m]
        /\ mParams[m] # <<>>
        /\ mWeight[m] # "Regular"
        /\ mItalic[m] # 0

(***************************************************************************)
(* Claims about the layers of a glyph.                                     *)
(***************************************************************************)
\* The glyph holds the layer.
LayerHeld(l) == \E i \in DOMAIN glyphLayers : glyphLayers[i].layer = l

\* A layer whose layerId equals its associatedMasterId, held by the glyph,
\* the glyph in the font, the id that of one of the font's masters.
MasterLayer(l) ==
    /\ LayerConstructed(l)
    /\ LayerHeld(l)
    /\ layerId[l] = layerAssoc[l]
    /\ glyphParent = TheFont
    /\ layerAssoc[l] \in MasterIds

\* C8 as stated: in every state, what a master layer reports as its name
\* is what its master reports as its name, whatever the layer's own stored
\* name.
C8_AnyMasterLayerReportsMasterName ==
    \A l \in LayerIds :
        MasterLayer(l)
        => /\ GSLayer_nameValue(l).err =
                 GSFontMaster_nameValue(layerAssoc[l]).err
           /\ GSLayer_nameValue(l).val =
                 GSFontMaster_nameValue(layerAssoc[l]).val

\* C8, amended: in every state, what a master layer with a non-empty id
\* reports as its name is what its master reports as its name, the same
\* value or the same error, whatever the layer's own stored name and
\* whatever was done to the master since; and a read of the layer's name
\* returns just that, keeps the master's name as a read of the master
\* would, and leaves the layer's stored name alone.
C8_MasterLayerReportsMasterName ==
    /\ [](\A l \in LayerIds :
             (MasterLayer(l) /\ layerId[l] # "")
             => /\ GSLayer_nameValue(l).err =
                      GSFontMaster_nameValue(layerAssoc[l]).err
                /\ GSLayer_nameValue(l).val =
                      GSFontMaster_nameValue(layerAssoc[l]).val)
    /\ [][\A l \in LayerIds :
             (/\ MasterLayer(l)
              /\ layerId[l] # ""
              /\ lOp'.op = "name"
              /\ lOp'.l = l
              /\ lOp' # lOp
              /\ mOp' = mOp)
             => /\ lOp'.err = GSFontMaster_nameValue(layerAssoc[l]).err
                /\ lOp'.val = GSFontMaster_nameValue(layerAssoc[l]).val
                /\ mName'[layerAssoc[l]] =
                      GSFontMaster_nameCache(layerAssoc[l])
                /\ layerName' = layerName]_vars

\* C8 witness: a master layer whose stored name is "Alt" has just been read
\* and reported "Bold", the name of its master, whose weight was changed
\* with nothing done to the layer.
C8_Witness ==
    \E l \in LayerIds :
        /\ MasterLayer(l)
        /\ lOp.op = "name"
        /\ lOp.l = l
        /\ lOp.err = "none"
        /\ lOp.val = "Bold"
        /\ layerName[l] = "Alt"
        /\ mName[layerAssoc[l]] = "Bold"

\* The layers of a sequence have distinct ids.
DistinctLayerIds(values) ==
    \A i, j \in DOMAIN values : i # j => layerId[values[i]] # layerId[values[j]]

\* C9: a bulk replace of the glyph's layers by a sequence of layers with
\* distinct ids leaves every supplied layer with the glyph as its parent,
\* the collection holding the supplied layers and no other, and layers[i]
\* the i-th supplied layer for every i from 0.
C9_BulkReplaceKeepsOrder ==
    [][(lOp'.op = "setter" /\ lOp' # lOp /\ DistinctLayerIds(lOp'.values))
       => LET supplied == lOp'.values IN
          /\ \A i \in DOMAIN supplied : layerParent'[supplied[i]] = TheGlyph
          /\ Len(glyphLayers') = Len(supplied)
          /\ {glyphLayers'[i].layer : i \in DOMAIN glyphLayers'}
                = Range(supplied)
          /\ \A i \in DOMAIN supplied :
                /\ LayerPosition(glyphLayers', i - 1) # 0
                /\ glyphLayers'[LayerPosition(glyphLayers', i - 1)].layer
                      = supplied[i]]_vars

\* C9 witness: the glyph's layers have just been replaced by the second
\* layer followed by the first, their ids distinct; both have the glyph as
\* parent and layers[0] is the second layer.
C9_Witness ==
    /\ lOp.op = "setter"
    /\ lOp.values = <<2, 1>>
    /\ layerId[1] # layerId[2]
    /\ layerParent[1] = TheGlyph
    /\ layerParent[2] = TheGlyph
    /\ Len(glyphLayers) = 2
    /\ glyphLayers[1].layer = 2

(***************************************************************************)
(* Claims about the type of a custom parameter's value.                    *)
(***************************************************************************)
\* C11 as stated: in every state the value a parameter holds has the type
\* of its current name, an integer under an integer-coded name, a boolean
\* under a boolean-coded name, whatever the order in which name and value
\* were assigned.
C11_ValueCoercedForName ==
    /\ pName \in CUSTOM_INT_PARAMS => GSCustomParameter_getValue.t = "int"
    /\ pName \in CUSTOM_BOOL_PARAMS => GSCustomParameter_getValue.t = "bool"

(***************************************************************************)
(* Claims about the parent back-references of the anchors.                 *)
(***************************************************************************)
\* C12 as stated: in every state reached through the proxy's operations,
\* every anchor the layer holds has the layer as its parent.
C12_HeldAnchorsHaveParent ==
    \A i \in DOMAIN anchors : anchorParent[anchors[i]] = TheLayer

\* C13 as stated: in every state, an anchor whose parent is the layer is
\* held by the layer: leaving the collection, by a delete at a position or
\* by name, by remove or by being replaced, clears the parent.
C13_ParentMeansHeld ==
    \A a \in AnchorIds : anchorParent[a] = TheLayer => a \in Range(anchors)

(***************************************************************************)
(* Claims about the ids of a glyph's layers.                               *)
(***************************************************************************)
\* C14 as stated: in every state no two entries of the glyph's layer
\* collection report the same layerId, and the layer of each entry reports
\* the key of the entry as its layerId.
C14_LayerIdsUniqueAndKeyed ==
    /\ \A i, j \in DOMAIN glyphLayers :
          i # j => layerId[glyphLayers[i].layer] # layerId[glyphLayers[j].layer]
    /\ \A i \in DOMAIN glyphLayers :
          layerId[glyphLayers[i].layer] = glyphLayers[i].key

\* The ids the glyph's layers are stored under.
LayerKeysHeld == {glyphLayers[i].key : i \in DOMAIN glyphLayers}

\* A successful append of layer l to the glyph, the glyph in the font.
AppendedStep(l) ==
    /\ lOp'.op = "append"
    /\ lOp'.l = l
    /\ lOp'.err = "none"
    /\ glyphParent = TheFont

\* What C15 says of a layer appended with neither id: it is stored last,
\* under an id no held layer and no master had, its associatedMasterId is
\* the first master's id, the layers held before are where they were.
AppendedWithoutIds(l) ==
    /\ layerId'[l] \notin LayerKeysHeld \cup MasterIds
    /\ layerId'[l] \notin {layerId[k] : k \in LayerIds}
    /\ glyphLayers' = Append(glyphLayers, [key |-> layerId'[l], layer |-> l])
    /\ layerAssoc'[l] = Masters[1]
    /\ layerParent'[l] = TheGlyph

\* C15 as stated: the above, and a layer appended with both ids set keeps
\* both.
C15_AppendKeepsGivenIds ==
    [][\A l \in LayerIds :
          AppendedStep(l)
          => /\ (~ Truthy(layerId[l]) /\ ~ Truthy(layerAssoc[l]))
                   => AppendedWithoutIds(l)
             /\ (Truthy(layerId[l]) /\ Truthy(layerAssoc[l]))
                   => /\ layerId'[l] = layerId[l]
                      /\ layerAssoc'[l] = layerAssoc[l]]_vars

\* C15, amended: a layer appended with neither id as C15 says; a layer
\* appended with both ids set keeps its layerId and is stored under it,
\* and keeps its associatedMasterId unless its layerId is the id of one of
\* the font's masters, which then becomes its associatedMasterId.
C15_AppendKeepsLayerId ==
    [][\A l \in LayerIds :
          AppendedStep(l)
          => /\ (~ Truthy(layerId[l]) /\ ~ Truthy(layerAssoc[l]))
                   => AppendedWithoutIds(l)
             /\ (Truthy(layerId[l]) /\ Truthy(layerAssoc[l]))
                   => /\ layerId'[l] = layerId[l]
                      /\ \E i \in DOMAIN glyphLayers' :
                            glyphLayers'[i] = [key |-> layerId[l], layer |-> l]
                      /\ layerAssoc'[l] =
                            IF layerId[l] \in MasterIds THEN layerId[l]
                            ELSE layerAssoc[l]]_vars

\* C15 witness: a layer with neither id has just been appended to a glyph
\* that held another layer: it is second, under a generated id, with the
\* first master's id as its associatedMasterId.
C15_Witness ==
    /\ lOp.op = "append"
    /\ lOp.err = "none"
    /\ glyphParent = TheFont
    /\ Len(glyphLayers) = 2
    /\ glyphLayers[2].layer = lOp.l
    /\ glyphLayers[2].key \in Uuids
    /\ glyphLayers[1].layer # lOp.l
    /\ layerId[lOp.l] = glyphLayers[2].key
    /\ layerAssoc[lOp.l] = Masters[1]

\* A lookup of the glyph's layers by the id key has just run.
LookedUp(key) == lOp'.op = "getitem" /\ lOp'.key = key

\* The glyph holds a layer under the id key.
HoldsKey(key) == key \in LayerKeysHeld

\* C16 as stated: a lookup by an id that no held layer has and a master of
\* the font has creates one layer, stores it last under that id with the
\* glyph as parent and both ids equal to the id, and returns it; a lookup
\* by a held id returns the held layer and changes nothing; a lookup by an
\* id that neither a held layer nor a master has returns not-found without
\* error and changes nothing.
C16_LookupMaterializesMasterLayer ==
    [][\A key \in LookupKeys :
          LookedUp(key)
          => /\ (~ HoldsKey(key) /\ glyphParent = TheFont /\ key \in MasterIds)
                   => /\ lOp'.err = "none"
                      /\ lOp'.ret \in LayerIds
                      /\ ~ LayerConstructed(lOp'.ret)
                      /\ glyphLayers' =
                            Append(glyphLayers,
                                   [key |-> key, layer |-> lOp'.ret])
                      /\ layerParent'[lOp'.ret] = TheGlyph
                      /\ layerId'[lOp'.ret] = key
                      /\ layerAssoc'[lOp'.ret] = key
             /\ HoldsKey(key)
                   => /\ lOp'.err = "none"
                      /\ \E i \in DOMAIN glyphLayers :
                            glyphLayers[i] = [key |-> key, layer |-> lOp'.ret]
                      /\ glyphLayers' = glyphLayers
             /\ (~ HoldsKey(key) /\ (glyphParent = None \/ key \notin MasterIds))
                   => /\ lOp'.err = "none"
                      /\ lOp'.ret = 0
                      /\ glyphLayers' = glyphLayers]_vars

\* A bulk replace of the glyph's layers by a value of type tp has just run.
ReplacedBy(tp) == lOp'.op = "setter" /\ lOp'.val = tp

\* C17 as stated, for the layers of a glyph: a bulk replace by a list, a
\* set or a GlyphLayerProxy raises no error, a bulk replace by a value of
\* another type raises an error and leaves the layers as they were.
C17_SetterAcceptsSequenceSetProxy ==
    [][\A tp \in ValueTypes :
          ReplacedBy(tp)
          => IF tp \in {"list", "set", "GlyphLayerProxy"}
             THEN lOp'.err = "none"
             ELSE /\ lOp'.err # "none"
                  /\ glyphLayers' = glyphLayers
                  /\ layerParent' = layerParent]_vars

(***************************************************************************)
(* Claims about access by a name no element has.                           *)
(***************************************************************************)
\* No anchor of the layer has the name key.
NoAnchorNamed(key) == AnchorIndexOfName(anchors, anchorName, key) = 0

\* C18 as stated, for the anchors of a layer: a delete by a name that no
\* held anchor has raises an error and leaves the anchors as they were.
C18_DeleteOfMissingNameRaises ==
    [][\A key \in AnchorNames \ {None} :
          (NoAnchorNamed(key) /\ LayerAnchorsProxy_delitem_name(key))
          => /\ anchorOp'.err # "none"
             /\ anchors' = anchors
             /\ anchorParent' = anchorParent]_vars

(***************************************************************************)
(* Claims about the lookup of a glyph by a string.                         *)
(***************************************************************************)
\* The codepoint a lookup string stands for: of a single character the
\* four hexadecimal digits of its code, of a longer string the string in
\* capitals.
CodepointOf(key) ==
    CASE key = <<"A">> -> <<"0", "0", "4", "1">>
      [] key = <<"J">> -> <<"0", "0", "4", "A">>
      [] key = <<"0", "0", "4", "a">> -> <<"0", "0", "4", "A">>
      [] key = <<"0", "0", "4", "A">> -> <<"0", "0", "4", "A">>

\* The positions of the glyphs with the name key, with the codepoint of
\* key.
GlyphsNamed(key) ==
    {i \in DOMAIN fontGlyphs : fontGlyphs[i].name = StrV(key)}
GlyphsCoded(key) ==
    {i \in DOMAIN fontGlyphs : fontGlyphs[i].unicode = StrV(CodepointOf(key))}

\* The least of a set of positions.
First(S) == CHOOSE i \in S : \A j \in S : i <= j

\* C19: a lookup of the font's glyphs by a string returns the first glyph
\* of that name; when there is none, the first glyph whose codepoint is
\* the one the string stands for; when there is none either, not-found;
\* and the glyphs are what they were.
C19_LookupByNameThenCodepoint ==
    [][\A key \in GlyphKeys :
          (gOp'.op = "getitem" /\ gOp'.key = key)
          => /\ fontGlyphs' = fontGlyphs
             /\ gOp'.ret =
                   IF GlyphsNamed(key) # {} THEN First(GlyphsNamed(key))
                   ELSE IF GlyphsCoded(key) # {} THEN First(GlyphsCoded(key))
                   ELSE 0]_vars

\* C19 witness: the lookup by "J", the name of no glyph, has returned the
\* second glyph, whose codepoint is 004A, the first glyph's being 004a.
C19_Witness ==
    /\ gOp.op = "getitem"
    /\ gOp.key = <<"J">>
    /\ gOp.ret = 2
    /\ Len(fontGlyphs) = 2
    /\ fontGlyphs[2].unicode = StrV(<<"0", "0", "4", "A">>)
    /\ fontGlyphs[1].unicode = StrV(<<"0", "0", "4", "a">>)

(***************************************************************************)
(* Claims about the fields that are written.                               *)
(***************************************************************************)
\* The last question was about the field key of an entity of class cls.
Asked(cls, key) == wOp.cls = cls /\ wOp.key = key

\* The fields that are written whatever they hold.
AlwaysWritten ==
    /\ Asked("GSFont", "unitsPerEm") => wOp.ret
    /\ Asked("GSFont", "versionMinor") => wOp.ret
    /\ Asked("GSLayer", "width") => wOp.ret
    /\ Asked("GSPath", "closed") => wOp.ret

C21_PolicyRuleOrder ==
    /\ Asked("GSFontMaster", "weightValue")
          => (wOp.ret <=> wOp.val # IntV(100))
    /\ Asked("GSFontMaster", "italicAngle")
          => (wOp.ret <=> wOp.val # IntV(0))
    /\ Asked("GSAnchor", "position")
          => (wOp.ret <=> wOp.val = PointV(TRUE))

\* C21 witness: asked about a weightValue of 0, the declared default being
\* 100, the master has answered "write".
C21_Witness ==
    /\ Asked("GSFontMaster", "weightValue")
    /\ wOp.val = IntV(0)
    /\ wOp.ret

\* The first master is as constructed but for a weight of Bold, its name
\* not read yet, and l is its layer in a glyph of the font.
BoldMasterWithLayer(l) ==
    /\ mWeight[FirstMaster] = "Bold"
    /\ mWidth[FirstMaster] = "Regular"
    /\ mName[FirstMaster] = None
    /\ layerId[l] = FirstMaster
    /\ layerAssoc[l] = FirstMaster
    /\ glyphParent = TheFont
    /\ \E i \in DOMAIN glyphLayers : glyphLayers[i].layer = l

C23_SaveReusesLoadPath ==
    [][sOp'.op = "save"
       => /\ (sOp'.path = None /\ opened # None)
                => /\ sOp'.err = "none"
                   /\ written' = Append(written, opened)
          /\ (sOp'.path = None /\ opened = None /\ filepath = None)
                => /\ sOp'.err # "none"
                   /\ written' = written
          /\ sOp'.path # None
                => /\ sOp'.err = "none"
                   /\ written' = Append(written, sOp'.path)]_vars

(***************************************************************************)
(* Claims about the bulk replace and the appends it stands for.            *)
(***************************************************************************)
\* The layers values appended one after the other to the collection acc.d
\* of a glyph in the font, uuid4() returning us[1], us[2], ...: the
\* collection and the layers' attributes afterwards.
RECURSIVE AppendEach(_, _, _)
AppendEach(acc, values, us) ==
    IF values = <<>> THEN acc
    ELSE LET l == Head(values)
             ids == AppendIds(l, Head(us))
             given == [acc.attrs EXCEPT !.id[l] = ids.id,
                                        !.assoc[l] = ids.assoc]
         IN  AppendEach([attrs |-> GSGlyph_setupLayer(given, l, ids.id,
                                                      glyphParent),
                         d |-> OrderedDictSet(acc.d, ids.id, l)],
                        Tail(values), Tail(us))

\* C24 as stated: a bulk replace of the layers of a glyph in the font by a
\* list leaves the collection and the layers' layerId, associatedMasterId
\* and parent as the appends of the list's layers, in order, to the
\* emptied collection would, for some identifiers that uuid4() can return.
C24_SetterEqualsAppends ==
    [][(lOp'.op = "setter" /\ lOp'.err = "none" /\ glyphParent = TheFont)
       => \E us \in [1..Len(lOp'.values) -> Uuids] :
             LET r == AppendEach([attrs |-> LayerAttrs, d |-> <<>>],
                                 lOp'.values, us)
             IN  /\ glyphLayers' = r.d
                 /\ layerId' = r.attrs.id
                 /\ layerAssoc' = r.attrs.assoc
                 /\ layerParent' = r.attrs.parent]_vars

(***************************************************************************)
(* Claims about the generic assignment of a field.                         *)
(***************************************************************************)
\* The number the generic assignment of the minor version was given: the
\* integer itself, or the one a bytes value denotes; None when the bytes
\* are no decimal numeral.
AssignedNumber(op) ==
    IF op.op = "setitem" THEN [ok |-> TRUE, n |-> op.v]
    ELSE IF PyInt(op.v).err = "none"
         THEN [ok |-> TRUE, n |-> PyInt(op.v).value.i]
         ELSE [ok |-> FALSE, n |-> 0]

C26_GaspTableIsParsed ==
    pOp.op \in {"new", "setValue"}
        => /\ pName = "GASP Table" => SetValueRule(pName) = "Parser.parse"
           /\ (/\ pName \notin CUSTOM_INT_PARAMS \cup CUSTOM_BOOL_PARAMS
               /\ pName \notin {"GASP Table", "note"})
                  => /\ pOp.err = "none"
                     /\ GSCustomParameter_getValue = pOp.raw

\* C27: writing, replacing or deleting a key of one object's user data
\* leaves the user data read from every other object as it was.
C27_UserDataIsolated ==
    [][uOp'.op \in {"setitem", "delitem"}
          => \A o \in UserDataOwners \ {uOp'.owner} :
                UserDataObserved(o)' = UserDataObserved(o)]_vars

\* The fallback of a name property of an instance: a formula over the
\* instance's name and the font's family name.
NameFallback(prop) ==
    CASE prop \in {"familyName", "preferredFamily"} -> FontFamilyName
      [] prop = "preferredSubfamilyName" -> iName
      [] prop = "windowsFamily" ->
            IF iName \in StyleNames THEN FontFamilyName
            ELSE FontFamilyName \o <<" ">> \o iName
      [] prop = "fontName" -> <<"Unnamed", "font", "-">> \o iName
      [] prop = "fullName" -> FontFamilyName \o <<" ">> \o iName

\* C29: a name property of an instance set to a non-empty value reads as
\* that value, on the first set and on every later one, and raises nothing;
\* a property whose custom parameter is not there reads as its fallback.
C29_NamePropertyRoundTrip ==
    /\ [][(iOp'.op = "set" /\ iOp'.v # StrV(<<>>))
             => /\ iOp'.err = "none"
                /\ GSInstance_property(iOp'.prop, iParams', iName') = iOp'.v]_vars
    /\ [](\A prop \in InstanceProperties :
            (\A i \in DOMAIN iParams : iParams[i].name # GetterKey(prop))
                => GSInstance_get(prop) = StrV(NameFallback(prop)))

\* C28: deleting from font.glyphs by a valid integer index, or popping at
\* it, raises nothing and removes the glyph at that position and no other,
\* and pop returns the glyph that was there.
C28_DeleteRemovesGlyphAtIndex ==
    [][(gOp'.op \in {"delitem", "pop"} /\ IndexInRange(fontGlyphs, gOp'.idx))
          => /\ gOp'.err = "none"
             /\ fontGlyphs' = RemoveAt(fontGlyphs,
                                       PositionOf(fontGlyphs, gOp'.idx))
             /\ gOp'.op = "pop"
                   => gOp'.ret = PositionOf(fontGlyphs, gOp'.idx)]_vars
====
